---- MODULE Spec2Model ----
(***************************************************************************)
(* Frame extraction engine of FrameWeavers (async_frame_extractor.py):     *)
(* the sampling planner, the scene-change detector, the retention gate     *)
(* and the batch orchestrator with its culling and re-indexing passes.     *)
(*                                                                         *)
(* Numbers.  Durations and sampling intervals are held in tenths of a      *)
(* second, correction factors in percent.  The planner's inputs are drawn  *)
(* from durations that are multiples of 0.5 s: those are exact binary      *)
(* floating-point values, and on them the quotient int(duration/interval)  *)
(* of the source equals the integer quotient used here.  The product       *)
(* int(optimal_frames * fps_factor) is evaluated as IEEE-754 doubles       *)
(* evaluate it (IntOfProduct).                                             *)
(***************************************************************************)
EXTENDS Integers, Sequences, FiniteSets, TLC

VARIABLES
    plan_in,      \* arguments of the last calculate_optimal_frame_count call
    plan_out,     \* what that call returned (or that it raised)
    gate_in,      \* arguments of the last _should_keep_frame call
    gate_out,     \* its scene-detector result and its verdict
    \* one process_multiple_files_async call
    input_paths,      \* the submitted files, in order
    batch_size,       \* performance_profile['recommended_batch_size']
    max_base_frames,  \* kwargs['max_base_frames']
    phase,            \* where the call is: idle, running, drained, culled, returned
    output_dir,       \* self.output_dir
    semaphore,        \* free permits of self.semaphore
    batch_start,      \* i of the chunk loop: files before it are merged
    files,            \* per input file: position and locals of its pipeline
    disk,             \* the files that exist: full path -> what image it holds
    all_frame_paths,  \* the aggregate FrameRecord list
    success_count,
    failed_count,
    pre_cull,         \* history: the aggregate list as it was before culling
    written,          \* history: every full path written during the call
    \* one AsyncProgressMonitor
    callbacks,         \* the registered observers, in registration order
    completed_files,
    current_file,
    current_progress,
    delivered,         \* history: per observer, the snapshots it was invoked with
    monitor_result,    \* how the last direct monitor write ended, and how many were made
    validate_in,       \* the file of the last direct validate_file call
    validate_out,      \* what that call returned
    host,              \* what the host answers to the telemetry queries
    extractor,         \* the AsyncFrameExtractor under construction or built
    tasks,             \* two overlapping process_multiple_files_async calls
    task_writes,       \* history: which call wrote or renamed a frame where
    gate_frames,       \* the pair of frames of the last detect_scene_change call
    quality_in,        \* what was measured on the frame of the last calculate_frame_quality call
    quality_out        \* the metrics that call returned

plannerVars == <<plan_in, plan_out>>
gateVars == <<gate_in, gate_out>>
batchVars == <<input_paths, batch_size, max_base_frames, phase, output_dir, semaphore,
               batch_start, files, disk, all_frame_paths, success_count, failed_count,
               pre_cull, written>>
monitorVars == <<callbacks, completed_files, current_file, current_progress, delivered,
                 monitor_result>>
vars == <<plan_in, plan_out, gate_in, gate_out, input_paths, batch_size, max_base_frames,
          phase, output_dir, semaphore, batch_start, files, disk, all_frame_paths,
          success_count, failed_count, pre_cull, written, callbacks, completed_files,
          current_file, current_progress, delivered, monitor_result, validate_in,
          validate_out, host, extractor, tasks, task_writes, gate_frames, quality_in,
          quality_out>>
validateVars == <<validate_in, validate_out>>
measureVars == <<gate_frames, quality_in, quality_out>>
apartVars == <<host, extractor, tasks, task_writes>>

None == "None"

Min(a, b) == IF a <= b THEN a ELSE b
Max(a, b) == IF a >= b THEN a ELSE b

(***************************************************************************)
(* AsyncFrameExtractorConfig                                               *)
(***************************************************************************)
\* sampling intervals, tenths of a second (0.2 s .. 4.0 s)
INTERVAL_ULTRA_SHORT == 2
INTERVAL_SHORT == 5
INTERVAL_MEDIUM_SHORT == 8
INTERVAL_MEDIUM == 10
INTERVAL_LONG == 15
INTERVAL_VERY_LONG == 20
INTERVAL_EXTRA_LONG == 25
INTERVAL_HOUR == 30
INTERVAL_SUPER_LONG == 40

\* duration classes, seconds
DURATION_ULTRA_SHORT == 3
DURATION_SHORT == 10
DURATION_MEDIUM_SHORT == 30
DURATION_MEDIUM == 120
DURATION_LONG == 300
DURATION_VERY_LONG == 600
DURATION_EXTRA_LONG == 1800
DURATION_HOUR == 3600

FPS_LOW == 15
FPS_STANDARD == 30
FPS_HIGH == 60

\* frame-rate correction factors, percent (0.8, 1.15, 1.3)
FPS_FACTOR_LOW == 80
FPS_FACTOR_STANDARD_HIGH == 115
FPS_FACTOR_HIGH == 130

MIN_FRAME_COUNT == 5
\* MAX_FRAME_PERCENTAGE = 0.5, percent
MAX_FRAME_PERCENTAGE == 50

(***************************************************************************)
(* Bounds of the planner's inputs                                          *)
(***************************************************************************)
MaxHalfSeconds == 8
MaxSmallFrames == 12

\* tenths of a second: every half second up to the bound, then both sides of
\* each duration class boundary
Durations ==
    {5 * h : h \in 1..MaxHalfSeconds}
        \cup {100, 105, 300, 305, 1000, 1200, 1205, 3000, 3005, 6000, 6005,
              18000, 18005, 36000, 36005}

FpsSamples == {10, 14, 15, 30, 31, 40, 60, 61}

TotalFrameSamples == (1..MaxSmallFrames) \cup {60, 300, 4000}

(***************************************************************************)
(* calculate_optimal_frame_count                                           *)
(***************************************************************************)
RECURSIVE Pow2Below(_, _)
\* the largest power of two below n, from p upwards (n >= 2)
Pow2Below(n, p) == IF 2 * p < n THEN Pow2Below(n, 2 * p) ELSE p

\* int(n * factor) in double arithmetic, factor given in percent.  0.8 and 1.3
\* are stored slightly above their decimal value and 1.0 exactly, so the product
\* truncates to the exact floor.  1.15 is stored as 1.15 - 0.4 * 2^-52: when
\* n * 1.15 is a whole number N = 23k (n = 20k) the exact product is
\* N - 8k * 2^-52, which rounds to N only if 8k * 2^-52 is at most half the
\* spacing 2^e * 2^-52 of the doubles below N (2^e the power of two below N);
\* otherwise it rounds below N and truncates to N - 1.
IntOfProduct(n, factor) ==
    IF factor = FPS_FACTOR_STANDARD_HIGH /\ n > 0 /\ n % 20 = 0
    THEN LET k == n \div 20
             N == 23 * k
         IN  IF 16 * k <= Pow2Below(N, 1) THEN N ELSE N - 1
    ELSE (n * factor) \div 100

\* the duration class: <<interval, strategy>>; duration in tenths of a second
IntervalFor(duration) ==
    IF duration <= DURATION_ULTRA_SHORT * 10 THEN <<INTERVAL_ULTRA_SHORT, "ultra_short">>
    ELSE IF duration <= DURATION_SHORT * 10 THEN <<INTERVAL_SHORT, "short">>
    ELSE IF duration <= DURATION_MEDIUM_SHORT * 10 THEN <<INTERVAL_MEDIUM_SHORT, "medium_short">>
    ELSE IF duration <= DURATION_MEDIUM * 10 THEN <<INTERVAL_MEDIUM, "medium">>
    ELSE IF duration <= DURATION_LONG * 10 THEN <<INTERVAL_LONG, "long">>
    ELSE IF duration <= DURATION_VERY_LONG * 10 THEN <<INTERVAL_VERY_LONG, "very_long">>
    ELSE IF duration <= DURATION_EXTRA_LONG * 10 THEN <<INTERVAL_EXTRA_LONG, "extra_long">>
    ELSE IF duration <= DURATION_HOUR * 10 THEN <<INTERVAL_HOUR, "hour">>
    ELSE <<INTERVAL_SUPER_LONG, "super_long">>

\* mutant: the low-frame-rate factor halves the plan instead of taking 0.8 of it
FpsFactor_LowHalved(fps) ==
    IF fps < FPS_LOW THEN 50
    ELSE IF fps > FPS_HIGH THEN FPS_FACTOR_HIGH
    ELSE IF fps > FPS_STANDARD THEN FPS_FACTOR_STANDARD_HIGH
    ELSE 100

FpsFactor(fps) ==
    IF fps < FPS_LOW THEN FPS_FACTOR_LOW
    ELSE IF fps > FPS_HIGH THEN FPS_FACTOR_HIGH
    ELSE IF fps > FPS_STANDARD THEN FPS_FACTOR_STANDARD_HIGH
    ELSE 100

\* mutant: the cap forgets the percentage
MaxAllowed_NoPercentage(total_frames) == Min(total_frames, total_frames)

\* max_allowed = min(total_frames, int(total_frames * MAX_FRAME_PERCENTAGE))
MaxAllowed(total_frames) ==
    Min(total_frames, (total_frames * MAX_FRAME_PERCENTAGE) \div 100)

\* The returned plan, or raised = TRUE when total_frames // optimal_frames
\* divides by zero.  real_time_interval is the pair <<numerator, denominator>>.
calculate_optimal_frame_count(duration, fps, total_frames) ==
    LET interval == IntervalFor(duration)[1]
        strategy == IntervalFor(duration)[2]
        base == Max(MIN_FRAME_COUNT, duration \div interval)
        corrected == IntOfProduct(base, FpsFactor(fps))
        optimal_frames == Min(corrected, MaxAllowed(total_frames))
    IN  IF optimal_frames = 0
        THEN [raised |-> TRUE, optimal_frames |-> 0, frame_interval |-> 0,
              real_time_interval |-> <<interval, 10>>, strategy |-> strategy]
        ELSE [raised |-> FALSE, optimal_frames |-> optimal_frames,
              frame_interval |-> Max(1, total_frames \div optimal_frames),
              real_time_interval |-> <<duration, 10 * optimal_frames>>,
              strategy |-> strategy]

DEFAULT_OUTPUT_DIR == "async_frames"
TASK_OUTPUT_DIR == "async_frames/task"

(***************************************************************************)
(* AsyncProgressMonitor: the two synchronized writers                      *)
(***************************************************************************)
\* a fresh monitor: no observer, nothing completed
MonitorIdle ==
    /\ callbacks = <<>>
    /\ completed_files = 0
    /\ current_file = <<>>
    /\ current_progress = 0
    /\ delivered = <<>>
    /\ monitor_result = [outcome |-> None, writes |-> 0]

\* the write of update_file_progress(filename, progress)
WriteProgress(filename, progress) ==
    /\ current_file' = filename
    /\ current_progress' = progress
    /\ UNCHANGED completed_files

\* the write of complete_file(filename)
WriteComplete(filename) ==
    /\ completed_files' = completed_files + 1
    /\ current_file' = filename
    /\ current_progress' = 100

\* An observer is what callback(progress_data) does when _notify_callbacks
\* calls it: "coroutine" returns a coroutine that completes, "coroutine_fails"
\* a coroutine that raises when awaited, "call_raises" is a callable whose
\* call raises or returns no awaitable (create_task then raises TypeError).
ObserverKinds == {"coroutine", "coroutine_fails", "call_raises"}

\* _notify_callbacks raises out of the writer: the loop that builds the tasks
\* is not guarded, only the gather is
NotifyRaises(cbs) == \E i \in DOMAIN cbs : cbs[i] = "call_raises"

\* An observer may also hand back a coroutine while a file is in progress and
\* raise when it is called with a completed file ("raises_on_completion").
\* callback(progress_data) raises:
ObserverRaises(kind, progress_data) ==
    \/ kind = "call_raises"
    \/ kind = "raises_on_completion" /\ progress_data.current_file_progress = 100

\* mutant: the snapshot reports the share of completed files as the
\* current file's progress
get_progress_data_OverallAsFile(completed, total_files, filename, progress) ==
    [completed_files |-> completed, current_file |-> filename,
     current_file_progress |-> IF total_files > 0
                               THEN (completed * 100) \div total_files ELSE 0]

\* get_progress_data, taken after a write
get_progress_data(completed, total_files, filename, progress) ==
    [completed_files |-> completed, current_file |-> filename,
     current_file_progress |-> progress]

\* overall_progress = completed_files / total_files * 100 if total_files > 0
\* else 0, as a quotient
overall_progress(completed, total_files) ==
    IF total_files > 0 THEN [num |-> completed * 100, den |-> total_files]
    ELSE [num |-> 0, den |-> 1]

\* _notify_callbacks with progress_data: the loop that calls the observers
\* raises at the first whose call raises; the ones before it were called
NotifyRaisesOn(cbs, progress_data) ==
    \E i \in DOMAIN cbs : ObserverRaises(cbs[i], progress_data)

Deliver(dl, cbs, progress_data) ==
    [i \in DOMAIN cbs |->
        IF \A j \in 1..(i - 1) : ~ObserverRaises(cbs[j], progress_data)
        THEN Append(dl[i], progress_data) ELSE dl[i]]

\* no frame measured yet
NoMetrics == [called |-> FALSE, sharpness |-> 0, brightness |-> 0, contrast |-> 0]
NoQuality == [sharpness |-> 0, brightness |-> 0, contrast |-> 0, quality_score |-> 0]

MeasureIdle ==
    /\ gate_frames = <<>>
    /\ quality_in = NoMetrics
    /\ quality_out = NoQuality

\* nothing constructed, no direct call made, no overlapping calls
ApartIdle ==
    /\ MeasureIdle
    /\ validate_in = [exists |-> FALSE, ext |-> "", size |-> 0, probe |-> "ok",
                      total_frames |-> 0, fps |-> 0, width |-> 0, height |-> 0]
    /\ validate_out = [valid |-> FALSE, error |-> None, file_type |-> None]
    /\ host = None
    /\ extractor = None
    /\ tasks = <<>>
    /\ task_writes = {}

\* no batch call in progress
BatchIdle ==
    /\ MonitorIdle
    /\ ApartIdle
    /\ input_paths = <<>>
    /\ batch_size = 1
    /\ max_base_frames = 1
    /\ phase = "idle"
    /\ output_dir = DEFAULT_OUTPUT_DIR
    /\ semaphore = 1
    /\ batch_start = 0
    /\ files = <<>>
    /\ disk = <<>>
    /\ all_frame_paths = <<>>
    /\ success_count = 0
    /\ failed_count = 0
    /\ pre_cull = <<>>
    /\ written = {}

\* before any call: no arguments, no result
NoArgs == [duration |-> 0, fps |-> 0, total_frames |-> 0]
NoPlan == [raised |-> FALSE, optimal_frames |-> 0, frame_interval |-> 0,
           real_time_interval |-> <<0, 1>>, strategy |-> None]

InitPlanner ==
    /\ plan_in = NoArgs
    /\ plan_out = NoPlan
    /\ gate_in = None
    /\ gate_out = None
    /\ BatchIdle

\* one call of the planner on a valid input (duration > 0, fps > 0, total_frames > 0)
CallPlanner ==
    /\ plan_in = NoArgs
    /\ \E duration \in Durations, fps \in FpsSamples, total_frames \in TotalFrameSamples :
        /\ plan_in' = [duration |-> duration, fps |-> fps, total_frames |-> total_frames]
        /\ plan_out' = calculate_optimal_frame_count(duration, fps, total_frames)
    /\ UNCHANGED <<gateVars, batchVars, monitorVars,
                   validateVars, measureVars, apartVars>>

NextPlanner == CallPlanner

SpecPlanner == InitPlanner /\ [][NextPlanner]_vars

(***************************************************************************)
(* Claims about the planner (checked under SpecPlanner)                    *)
(***************************************************************************)
Planned == plan_in # NoArgs
Returned == Planned /\ ~plan_out.raised

\* C1 as stated: for every valid input the planner returns optimal_frames with
\* 5 <= optimal_frames <= total_frames * 0.5 and frame_interval >= 1.
C1_FiveToHalf ==
    Planned =>
        /\ ~plan_out.raised
        /\ 5 <= plan_out.optimal_frames
        /\ 2 * plan_out.optimal_frames <= plan_in.total_frames
        /\ plan_out.frame_interval >= 1

\* C1 amended: with total_frames >= 2 a plan is returned and satisfies
\* min(4, total_frames div 2) <= optimal_frames <= total_frames * 0.5 and
\* frame_interval >= 1, the lower bound being 5 when fps >= 15 and
\* total_frames >= 10; with total_frames = 1 the call raises instead.
C1_PlanBounds ==
    Planned =>
        IF plan_in.total_frames = 1
        THEN plan_out.raised
        ELSE /\ ~plan_out.raised
             /\ Min(4, plan_in.total_frames \div 2) <= plan_out.optimal_frames
             /\ 2 * plan_out.optimal_frames <= plan_in.total_frames
             /\ plan_out.frame_interval >= 1
             /\ (plan_in.fps >= 15 /\ plan_in.total_frames >= 10
                    => plan_out.optimal_frames >= 5)

\* a plan below five frames although the clip has room for five
C1_Witness ==
    /\ Returned
    /\ plan_in.total_frames >= 10
    /\ plan_out.optimal_frames = 4

\* C2: for every valid input, the shortest clips included, the planner returns
\* a plan with optimal_frames >= 1 and frame_interval = max(1, total_frames //
\* optimal_frames); it never fails.
C2_PlannerNeverFails ==
    Planned =>
        /\ ~plan_out.raised
        /\ plan_out.optimal_frames >= 1
        /\ plan_out.frame_interval
              = Max(1, plan_in.total_frames \div plan_out.optimal_frames)

\* C3: every returned plan has optimal_frames <= total_frames,
\* optimal_frames <= total_frames * 0.5 and frame_interval >= 1.
C3_ReturnedPlanWithinCap ==
    Returned =>
        /\ plan_out.optimal_frames <= plan_in.total_frames
        /\ 2 * plan_out.optimal_frames <= plan_in.total_frames
        /\ plan_out.frame_interval >= 1

\* the half-of-the-frames cap is what decided a returned plan
C3_Witness ==
    /\ Returned
    /\ plan_in.total_frames >= 4
    /\ plan_out.optimal_frames = plan_in.total_frames \div 2
    /\ plan_out.frame_interval = 2

\* The planner as the specification words it, in exact arithmetic: duration
\* buckets with inclusive upper bounds (tenths of a second), the fps factor in
\* percent, floors as integer division.
ReferenceBuckets ==
    << <<30, 2>>, <<100, 5>>, <<300, 8>>, <<1200, 10>>, <<3000, 15>>,
       <<6000, 20>>, <<18000, 25>>, <<36000, 30>> >>

ReferenceInterval(duration) ==
    LET hits == {i \in 1..Len(ReferenceBuckets) : duration <= ReferenceBuckets[i][1]}
    IN  IF hits = {} THEN 40
        ELSE ReferenceBuckets[CHOOSE i \in hits : \A j \in hits : i <= j][2]

ReferenceFactor(fps) ==
    CASE fps < 15 -> 80
      [] fps >= 15 /\ fps <= 30 -> 100
      [] fps > 30 /\ fps <= 60 -> 115
      [] fps > 60 -> 130

ReferenceOptimal(duration, fps, total_frames) ==
    LET base == Max(5, duration \div ReferenceInterval(duration))
        corrected == (base * ReferenceFactor(fps)) \div 100
    IN  Min(corrected, Min(total_frames, total_frames \div 2))

\* C4: the planner equals the reference planner on every valid input (bucket
\* table, base_frames = max(5, floor(duration/interval)), fps factor, corrected
\* = floor(base_frames * factor), cap, frame_interval = max(1, total_frames //
\* optimal)); a 2-second, 30 fps, 60-frame clip gives interval 0.2 s and 10.
C4_EqualsReference ==
    Planned =>
        LET ref == ReferenceOptimal(plan_in.duration, plan_in.fps, plan_in.total_frames)
        IN  /\ plan_out.optimal_frames = ref
            /\ ref >= 1 =>
                  /\ ~plan_out.raised
                  /\ plan_out.frame_interval = Max(1, plan_in.total_frames \div ref)
            /\ (plan_in = [duration |-> 20, fps |-> 30, total_frames |-> 60]
                   => plan_out.optimal_frames = 10 /\ IntervalFor(20)[1] = 2)

\* The same comparison away from the inputs whose product base_frames * 1.15
\* is a whole number: there the planner and the reference agree.
PlannerMatchesReferenceOffWholeProducts ==
    Planned =>
        LET base == Max(5, plan_in.duration \div ReferenceInterval(plan_in.duration))
        IN  (ReferenceFactor(plan_in.fps) = 115 /\ base % 20 = 0) \/ C4_EqualsReference

(***************************************************************************)
(* detect_scene_change and _should_keep_frame                              *)
(*                                                                         *)
(* The two measurements the detector takes from the pixel buffers, the     *)
(* mean absolute difference and the chi-square histogram distance, are     *)
(* its inputs here.  change_intensity is held in units of 1/10000: every   *)
(* pixel_threshold of SCENE_THRESHOLDS divides 6000 and every              *)
(* histogram_threshold divides 4000, so the value is exact.                *)
(***************************************************************************)
Sensitivities == {"low", "medium", "high", "ultra"}

\* SCENE_THRESHOLDS: <<pixel_threshold, histogram_threshold>>
SCENE_THRESHOLDS ==
    [low |-> <<40, 1000>>, medium |-> <<25, 500>>,
     high |-> <<15, 200>>, ultra |-> <<10, 100>>]

INTENSITY_THRESHOLDS == [low |-> 15, medium |-> 25, high |-> 40, ultra |-> 60]

DEFAULT_SHARPNESS_THRESHOLD == 100
DEFAULT_SIMILARITY_THRESHOLD == 15
DEFAULT_SCENE_SENSITIVITY == "high"

\* SCENE_THRESHOLDS.get(sensitivity, SCENE_THRESHOLDS['high'])
ThresholdsFor(sensitivity) ==
    IF sensitivity \in DOMAIN SCENE_THRESHOLDS
    THEN SCENE_THRESHOLDS[sensitivity] ELSE SCENE_THRESHOLDS["high"]

\* mutant: the intensity threshold is read as a ratio of 1
IntensityThresholdFor_Ratio(sensitivity) == 1

\* INTENSITY_THRESHOLDS.get(scene_sensitivity, 40.0)
IntensityThresholdFor(sensitivity) ==
    IF sensitivity \in DOMAIN INTENSITY_THRESHOLDS
    THEN INTENSITY_THRESHOLDS[sensitivity] ELSE 40

\* mutant: the pixel test accepts a difference equal to the threshold
detect_scene_change_PixelInclusive(pixel_diff, hist_diff, sensitivity) ==
    LET pt == ThresholdsFor(sensitivity)[1]
        ht == ThresholdsFor(sensitivity)[2]
    IN  [is_scene_change |-> (pixel_diff >= pt) \/ (hist_diff > ht),
         change_intensity |-> (6000 * pixel_diff) \div pt + (4000 * hist_diff) \div ht,
         pixel_difference |-> pixel_diff,
         histogram_difference |-> hist_diff]

detect_scene_change(pixel_diff, hist_diff, sensitivity) ==
    LET pt == ThresholdsFor(sensitivity)[1]
        ht == ThresholdsFor(sensitivity)[2]
        pixel_change == pixel_diff > pt
        hist_change == hist_diff > ht
    IN  [is_scene_change |-> pixel_change \/ hist_change,
         \* pixel_diff / pt * 0.6 + hist_diff / ht * 0.4
         change_intensity |-> (6000 * pixel_diff) \div pt + (4000 * hist_diff) \div ht,
         pixel_difference |-> pixel_diff,
         histogram_difference |-> hist_diff]

\* mutant: the sharpness check runs before the first-frame rule
should_keep_frame_SharpnessFirst(has_previous, sharpness, pixel_diff, hist_diff, sharpness_threshold, similarity_threshold, scene_sensitivity) ==
    IF sharpness < sharpness_threshold THEN FALSE
    ELSE IF ~has_previous THEN TRUE
    ELSE LET scene_result == detect_scene_change(pixel_diff, hist_diff, scene_sensitivity)
         IN  IF scene_result.is_scene_change
             THEN scene_result.change_intensity
                      >= IntensityThresholdFor(scene_sensitivity) * 10000
             ELSE scene_result.pixel_difference >= similarity_threshold

\* mutant: without a scene change the difference must exceed the threshold
should_keep_frame_StrictSimilarity(has_previous, sharpness, pixel_diff, hist_diff, sharpness_threshold, similarity_threshold, scene_sensitivity) ==
    IF ~has_previous THEN TRUE
    ELSE IF sharpness < sharpness_threshold THEN FALSE
    ELSE LET scene_result == detect_scene_change(pixel_diff, hist_diff, scene_sensitivity)
         IN  IF scene_result.is_scene_change
             THEN scene_result.change_intensity
                      >= IntensityThresholdFor(scene_sensitivity) * 10000
             ELSE scene_result.pixel_difference > similarity_threshold

\* has_previous: previous_frame is not None; pixel_diff, hist_diff: what the
\* detector measures between previous_frame and the candidate
should_keep_frame(has_previous, sharpness, pixel_diff, hist_diff, sharpness_threshold, similarity_threshold, scene_sensitivity) ==
    IF ~has_previous THEN TRUE
    ELSE IF sharpness < sharpness_threshold THEN FALSE
    ELSE LET scene_result == detect_scene_change(pixel_diff, hist_diff, scene_sensitivity)
         IN  IF scene_result.is_scene_change
             THEN scene_result.change_intensity
                      >= IntensityThresholdFor(scene_sensitivity) * 10000
             ELSE scene_result.pixel_difference >= similarity_threshold

(***************************************************************************)
(* Bounds of the gate's inputs                                             *)
(***************************************************************************)
MaxPixelDiff == 41

\* every small difference, and the largest ones two 8-bit frames can have
PixelDiffs == (0..MaxPixelDiff) \cup {128, 254, 255}

\* both sides of every histogram threshold, and the distances at which the
\* intensity reaches each intensity threshold
HistDiffs == {0, 100, 101, 200, 201, 500, 501, 1000, 1001,
              14000, 15000, 19500, 20000, 30500, 31250, 37000, 37500}

SharpnessSamples == {99, 100, 101}
SharpnessThresholds == {DEFAULT_SHARPNESS_THRESHOLD, 101}
SimilarityThresholds == {10, DEFAULT_SIMILARITY_THRESHOLD, 16}
SensitivityKeys == Sensitivities \cup {"other"}

NoGateArgs ==
    [has_previous |-> FALSE, sharpness |-> 0, pixel_diff |-> 0, hist_diff |-> 0,
     sharpness_threshold |-> 0, similarity_threshold |-> 0, sensitivity |-> None]
NoGateResult ==
    [keep |-> FALSE, scene |-> detect_scene_change(0, 0, DEFAULT_SCENE_SENSITIVITY)]

InitGate ==
    /\ plan_in = NoArgs
    /\ plan_out = NoPlan
    /\ gate_in = NoGateArgs
    /\ gate_out = NoGateResult
    /\ BatchIdle

\* one call of the retention gate; the detector's result for the same pair of
\* frames is recorded beside the verdict
CallGate ==
    /\ gate_in = NoGateArgs
    /\ \E has_previous \in BOOLEAN, sharpness \in SharpnessSamples,
          pixel_diff \in PixelDiffs, hist_diff \in HistDiffs,
          sharpness_threshold \in SharpnessThresholds,
          similarity_threshold \in SimilarityThresholds,
          sensitivity \in SensitivityKeys :
        /\ gate_in' = [has_previous |-> has_previous, sharpness |-> sharpness,
                       pixel_diff |-> pixel_diff, hist_diff |-> hist_diff,
                       sharpness_threshold |-> sharpness_threshold,
                       similarity_threshold |-> similarity_threshold,
                       sensitivity |-> sensitivity]
        /\ gate_out' = [keep |-> should_keep_frame(has_previous, sharpness, pixel_diff,
                                    hist_diff, sharpness_threshold,
                                    similarity_threshold, sensitivity),
                        scene |-> detect_scene_change(pixel_diff, hist_diff, sensitivity)]
    /\ UNCHANGED <<plannerVars, batchVars, monitorVars,
                   validateVars, measureVars, apartVars>>

(***************************************************************************)
(* What detect_scene_change measures on a pair of frames                   *)
(*                                                                         *)
(* A frame is a row of one or two grey pixels.  A second frame of another  *)
(* shape is resized to the first one's: two pixels become their mean, one  *)
(* pixel is repeated.                                                      *)
(***************************************************************************)
GreyLevels == {0, 20, 60}
GreyFrames == [1..1 -> GreyLevels] \cup [1..2 -> GreyLevels]

\* cv2.resize(gray2, (gray1.shape[1], gray1.shape[0]))
Resize(gray, width) ==
    IF Len(gray) = width THEN gray
    ELSE IF width = 1 THEN << (gray[1] + gray[2]) \div 2 >>
    ELSE << gray[1], gray[1] >>

\* mutant: the two pixels are added
AbsDiff_Sum(a, b) == a + b

\* cv2.absdiff on one pixel
AbsDiff(a, b) == IF a >= b THEN a - b ELSE b - a

RECURSIVE SumAbsDiff(_, _, _)
SumAbsDiff(gray1, gray2, i) ==
    IF i > Len(gray1) THEN 0
    ELSE AbsDiff(gray1[i], gray2[i]) + SumAbsDiff(gray1, gray2, i + 1)

\* cv2.calcHist: how many pixels have the value v
Hist(gray, v) == Cardinality({i \in DOMAIN gray : gray[i] = v})

RECURSIVE ChiSquareTwice(_, _, _)
\* cv2.compareHist(hist1, hist2, HISTCMP_CHISQR): the sum over the bins that
\* hist1 fills of (hist1 - hist2)^2 / hist1; twice the sum, so that a bin of
\* two pixels gives a whole number
ChiSquareTwice(bins, gray1, gray2) ==
    IF bins = {} THEN 0
    ELSE LET v == CHOOSE x \in bins : TRUE
             a == Hist(gray1, v)
             b == Hist(gray2, v)
         IN  ((a - b) * (a - b) * 2) \div a + ChiSquareTwice(bins \ {v}, gray1, gray2)

\* lines 598-610: <<sum of |gray1 - gray2|, number of pixels, twice hist_diff>>
Measure(frame1, frame2) ==
    LET gray1 == frame1
        gray2 == Resize(frame2, Len(gray1))
    IN  << SumAbsDiff(gray1, gray2, 1), Len(gray1),
           ChiSquareTwice({gray1[i] : i \in DOMAIN gray1}, gray1, gray2) >>

\* _should_keep_frame with a previous frame: the detector measures the pair.
\* The pairs are those whose two measures are whole numbers.
CompareFrames ==
    /\ gate_in = NoGateArgs
    /\ \E previous_frame \in GreyFrames, frame \in GreyFrames,
          sharpness \in SharpnessSamples,
          sharpness_threshold \in SharpnessThresholds,
          similarity_threshold \in SimilarityThresholds \cup {0, 1},
          sensitivity \in SensitivityKeys :
        LET measured == Measure(previous_frame, frame)
            pixel_diff == measured[1] \div measured[2]
            hist_diff == measured[3] \div 2
        IN  /\ measured[1] % measured[2] = 0
            /\ measured[3] % 2 = 0
            /\ gate_frames' = <<previous_frame, frame>>
            /\ gate_in' = [has_previous |-> TRUE, sharpness |-> sharpness,
                           pixel_diff |-> pixel_diff, hist_diff |-> hist_diff,
                           sharpness_threshold |-> sharpness_threshold,
                           similarity_threshold |-> similarity_threshold,
                           sensitivity |-> sensitivity]
            /\ gate_out' = [keep |-> should_keep_frame(TRUE, sharpness, pixel_diff,
                                        hist_diff, sharpness_threshold,
                                        similarity_threshold, sensitivity),
                            scene |-> detect_scene_change(pixel_diff, hist_diff, sensitivity)]
    /\ UNCHANGED <<plannerVars, batchVars, monitorVars, validateVars, quality_in,
                   quality_out, apartVars>>

NextGate ==
    \/ CallGate
    \/ CompareFrames

SpecGate == InitGate /\ [][NextGate]_vars

(***************************************************************************)
(* Claims about the gate and the detector (checked under SpecGate)         *)
(***************************************************************************)
Gated == gate_in # NoGateArgs

\* the claims' own tables
ClaimPixelThreshold == [low |-> 40, medium |-> 25, high |-> 15, ultra |-> 10]
ClaimHistThreshold == [low |-> 1000, medium |-> 500, high |-> 200, ultra |-> 100]
ClaimIntensityThreshold == [low |-> 15, medium |-> 25, high |-> 40, ultra |-> 60]

\* C5: _should_keep_frame is the ordered 4-branch gate: no previous frame ->
\* keep; else sharpness below the threshold -> discard; else on a scene change
\* keep iff change_intensity >= intensity_threshold[sensitivity]; else keep iff
\* pixel_difference >= similarity_threshold.  The first candidate is kept
\* whatever its sharpness.
C5_FourBranchGate ==
    (Gated /\ gate_in.sensitivity \in Sensitivities) =>
        LET s == gate_in.sensitivity
            sc == gate_out.scene
            expected ==
                CASE ~gate_in.has_previous -> TRUE
                  [] gate_in.has_previous
                        /\ gate_in.sharpness < gate_in.sharpness_threshold -> FALSE
                  [] gate_in.has_previous
                        /\ gate_in.sharpness >= gate_in.sharpness_threshold
                        /\ sc.is_scene_change ->
                            sc.change_intensity >= ClaimIntensityThreshold[s] * 10000
                  [] OTHER -> sc.pixel_difference >= gate_in.similarity_threshold
        IN  gate_out.keep = expected

\* a blurry first candidate, kept
C5_Witness ==
    /\ Gated
    /\ ~gate_in.has_previous
    /\ gate_in.sharpness < gate_in.sharpness_threshold
    /\ gate_out.keep

\* a sharp scene-change candidate kept at exactly the intensity threshold
C5_WitnessIntensity ==
    /\ Gated
    /\ gate_in.has_previous
    /\ gate_in.sharpness >= gate_in.sharpness_threshold
    /\ gate_out.scene.is_scene_change
    /\ gate_out.scene.change_intensity
          = ClaimIntensityThreshold[gate_in.sensitivity] * 10000
    /\ gate_out.keep

\* C6: for every sensitivity and every pair (pixel_diff, hist_diff),
\* is_scene_change = (pixel_diff > pixel_threshold OR hist_diff >
\* histogram_threshold), strictly, and change_intensity = 0.6 * pixel_diff /
\* pixel_threshold + 0.4 * hist_diff / histogram_threshold.
C6_DetectorFormula ==
    (Gated /\ gate_in.sensitivity \in Sensitivities) =>
        LET pt == ClaimPixelThreshold[gate_in.sensitivity]
            ht == ClaimHistThreshold[gate_in.sensitivity]
            sc == gate_out.scene
        IN  /\ sc.is_scene_change
                  = ((gate_in.pixel_diff > pt) \/ (gate_in.hist_diff > ht))
            \* in units of 1/10000, both quotients exact
            /\ (6000 * gate_in.pixel_diff) % pt = 0
            /\ (4000 * gate_in.hist_diff) % ht = 0
            /\ sc.change_intensity
                  = (6000 * gate_in.pixel_diff) \div pt + (4000 * gate_in.hist_diff) \div ht

\* both measurements exactly at their thresholds: no scene change
C6_Witness ==
    /\ Gated
    /\ gate_in.sensitivity \in Sensitivities
    /\ gate_in.pixel_diff = ClaimPixelThreshold[gate_in.sensitivity]
    /\ gate_in.hist_diff = ClaimHistThreshold[gate_in.sensitivity]
    /\ ~gate_out.scene.is_scene_change

(***************************************************************************)
(* validate_file                                                           *)
(*                                                                         *)
(* A file is what the host and the codec answer about it: whether it       *)
(* exists, its extension, its size in bytes, how opening it ends (ok,      *)
(* cannot_open: isOpened() is False or imread gives None, raises: a probe  *)
(* raises) and the metadata the container reports.                         *)
(***************************************************************************)
SUPPORTED_VIDEO_FORMATS == {".mp4", ".avi", ".mov", ".mkv", ".wmv", ".flv", ".webm", ".m4v"}
SUPPORTED_IMAGE_FORMATS == {".jpg", ".jpeg", ".png", ".bmp", ".tiff", ".tif", ".webp"}
DEFAULT_MAX_FILE_SIZE_MB == 500
BYTES_TO_MB == 1024 * 1024

\* set by __init__ from max_file_size_mb
max_file_size_bytes == DEFAULT_MAX_FILE_SIZE_MB * BYTES_TO_MB
supported_formats == SUPPORTED_VIDEO_FORMATS \cup SUPPORTED_IMAGE_FORMATS

\* str.lower() on the extensions that are submitted here
Lower(ext) ==
    CASE ext = ".MP4" -> ".mp4"
      [] ext = ".PNG" -> ".png"
      [] OTHER -> ext

Invalid(error) == [valid |-> FALSE, error |-> error, file_type |-> None]

\* no validate_file call has returned yet
NotValidated == Invalid(None)

\* _validate_video_sync
validate_video_sync(file) ==
    IF file.probe = "cannot_open" THEN Invalid("cannot open video")
    ELSE IF file.probe = "raises" THEN Invalid("validation raised")
    ELSE IF file.total_frames <= 0 \/ file.fps <= 0 \/ file.width <= 0 \/ file.height <= 0
         THEN Invalid("bad video parameters")
    ELSE [valid |-> TRUE, error |-> None, file_type |-> "video"]

\* _validate_image_sync
validate_image_sync(file) ==
    IF file.probe = "cannot_open" THEN Invalid("cannot read image")
    ELSE IF file.probe = "raises" THEN Invalid("validation raised")
    ELSE IF file.width <= 0 \/ file.height <= 0 THEN Invalid("bad image size")
    ELSE [valid |-> TRUE, error |-> None, file_type |-> "image"]

\* mutant: a file of exactly the size limit is rejected
validate_file_SizeInclusive(file) ==
    IF ~file.exists THEN Invalid("missing")
    ELSE IF Lower(file.ext) \notin supported_formats THEN Invalid("unsupported format")
    ELSE IF file.size >= max_file_size_bytes THEN Invalid("too large")
    ELSE IF Lower(file.ext) \in SUPPORTED_VIDEO_FORMATS THEN validate_video_sync(file)
    ELSE validate_image_sync(file)

validate_file(file) ==
    IF ~file.exists THEN Invalid("missing")
    ELSE IF Lower(file.ext) \notin supported_formats THEN Invalid("unsupported format")
    ELSE IF file.size > max_file_size_bytes THEN Invalid("too large")
    ELSE IF Lower(file.ext) \in SUPPORTED_VIDEO_FORMATS THEN validate_video_sync(file)
    ELSE validate_image_sync(file)

HostFile(exists, ext, size, probe, total_frames, fps, width, height) ==
    [exists |-> exists, ext |-> ext, size |-> size, probe |-> probe,
     total_frames |-> total_frames, fps |-> fps, width |-> width, height |-> height]

\* the files submitted to a direct validate_file call
HostFiles ==
    {HostFile(exists, ext, size, probe, total_frames, fps, width, height) :
        exists \in BOOLEAN, ext \in {".mp4", ".MP4", ".png", ".txt", ""},
        size \in {max_file_size_bytes - 1, max_file_size_bytes, max_file_size_bytes + 1},
        probe \in {"ok", "cannot_open", "raises"},
        total_frames \in {0, 4}, fps \in {0, 10}, width \in {0, 16}, height \in {-1, 9}}

\* a sound file of the batch catalogue, and one that does not exist
SoundFile(ext, total_frames, fps) == HostFile(TRUE, ext, 4096, "ok", total_frames, fps, 16, 9)
MissingFile(ext) == HostFile(FALSE, ext, 0, "cannot_open", 0, 0, 0, 0)

(***************************************************************************)
(* process_multiple_files_async                                            *)
(*                                                                         *)
(* An input file is described by what the host and the codecs answer for   *)
(* it: whether validate_file accepts it, its type, the frame count and     *)
(* frame rate the container reports, and its stream.  A stream element     *)
(* says how reading that frame ends (ok, fail: read returns False, raise:  *)
(* an exception inside the loop), the retention gate's verdict against     *)
(* the previously retained frame, its quality_score and whether imwrite    *)
(* stores it.  An image is a stream of one element.                        *)
(***************************************************************************)
Frame(read, gate, q, saves) == [read |-> read, gate |-> gate, q |-> q, saves |-> saves]

Media(base, ext, valid, type, total_frames, fps, stream) ==
    [base |-> base, ext |-> ext, valid |-> valid, type |-> type,
     total_frames |-> total_frames, fps |-> fps, stream |-> stream]

FileCatalogue ==
    { \* 4 frames, frames 0 and 2 sampled and retained
      Media("a", "mp4", validate_file(SoundFile(".mp4", 4, 10)).valid, "video", 4, 10,
            << Frame("ok", TRUE, 3, TRUE), Frame("ok", TRUE, 1, TRUE),
               Frame("ok", TRUE, 1, TRUE), Frame("ok", TRUE, 1, TRUE) >>),
      \* 6 frames, frames 0, 2, 4 sampled, frame 2 rejected by the gate
      Media("b", "mp4", validate_file(SoundFile(".mp4", 6, 10)).valid, "video", 6, 10,
            << Frame("ok", TRUE, 2, TRUE), Frame("ok", TRUE, 1, TRUE),
               Frame("ok", FALSE, 5, TRUE), Frame("ok", TRUE, 1, TRUE),
               Frame("ok", TRUE, 4, TRUE), Frame("ok", TRUE, 1, TRUE) >>),
      \* a single-frame clip
      Media("c", "mp4", validate_file(SoundFile(".mp4", 1, 10)).valid, "video", 1, 10,
            << Frame("ok", TRUE, 2, TRUE) >>),
      \* frame 0 is stored, then decoding frame 1 raises
      Media("e", "mp4", validate_file(SoundFile(".mp4", 4, 10)).valid, "video", 4, 10,
            << Frame("ok", TRUE, 2, TRUE), Frame("raise", TRUE, 1, TRUE) >>),
      \* rejected by validate_file
      Media("x", "mp4", validate_file(MissingFile(".mp4")).valid, "video", 0, 0, << >>),
      \* two images with the same base name
      Media("a", "png", validate_file(SoundFile(".png", 0, 0)).valid, "image", 0, 0,
            << Frame("ok", TRUE, 2, TRUE) >>),
      Media("a", "jpg", validate_file(SoundFile(".jpg", 0, 0)).valid, "image", 0, 0,
            << Frame("ok", TRUE, 4, TRUE) >>) }

MaxFiles == 2
MaxBatchSize == 2
MaxCap == 2

\* the sequences of at most n distinct elements of S
SeqsUpTo(S, n) ==
    {q \in UNION {[1..k -> S] : k \in 0..n} :
        \A i, j \in DOMAIN q : i # j => q[i] # q[j]}

(***************************************************************************)
(* File names and the file system                                          *)
(***************************************************************************)
\* f"frame_{extracted_count:04d}_{timestamp:.2f}s.jpg"; ts in hundredths
RawFrameName(extracted_count, ts) ==
    [kind |-> "frame_ts", idx |-> extracted_count, ts |-> ts, stype |-> "", name |-> ""]

\* f"image_{base_name}.jpg"
ImageName(base_name) ==
    [kind |-> "image", idx |-> 0, ts |-> 0, stype |-> "", name |-> base_name]

\* f"frame_{i:04d}_{source_type}_{clean_name}.jpg"
IndexedName(i, source_type, clean_name) ==
    [kind |-> "frame_src", idx |-> i, ts |-> 0, stype |-> source_type, name |-> clean_name]

\* os.path.join(directory, filename)
Join(directory, filename) == [dir |-> directory, file |-> filename]

\* os.path.basename(file_path) and os.path.splitext(...)[0]
Basename(media) == <<media.base, media.ext>>
CleanName(source_file) == source_file[1]

\* timestamp = frame_count / fps, the quotient itself
Quotient(num, den) == [num |-> num, den |-> den]

\* timestamp = frame_count / fps, as "%.2f" prints it (hundredths, rounded)
Timestamp(frame_count, fps) == (frame_count * 100 * 2 + fps) \div (2 * fps)

Exists(d, path) == path \in DOMAIN d
WriteFile(d, path, content) == [q \in DOMAIN d \cup {path} |-> IF q = path THEN content ELSE d[q]]
RemoveFile(d, path) == [q \in DOMAIN d \ {path} |-> d[q]]
RenameFile(d, old, new) ==
    [q \in (DOMAIN d \ {old}) \cup {new} |-> IF q = new THEN d[old] ELSE d[q]]

(***************************************************************************)
(* The per-file pipeline: process_single_file, extract_frames_async,       *)
(* _extract_frames_sync, process_image_file_async                          *)
(***************************************************************************)
\* cap: the VideoCapture (none, open, released); reads: how many times
\* cap.read() was called; previous: the frame_number held in previous_frame
\* (-1: None); sampled: history, the frame numbers the gate was evaluated
\* for; compared: history, what previous_frame held at each of those
\* evaluations; ending: why the decode loop was left
NewFile ==
    [pc |-> "pending", frame_count |-> 0, extracted_count |-> 0, has_previous |-> FALSE,
     frame_paths |-> <<>>, success |-> FALSE, raised |-> FALSE,
     cap |-> "none", reads |-> 0, previous |-> -1, sampled |-> <<>>, compared |-> <<>>,
     ending |-> ""]

Positions == 1..Len(input_paths)
\* mutant: every file not yet merged is started at once
Chunk_Unbounded == {k \in Positions : batch_start < k}

\* mutant: the first file of the next chunk is started with this one
Chunk_Lookahead == {k \in Positions : batch_start < k /\ k <= batch_start + batch_size + 1}

\* the chunk input_paths[i:i + batch_size]
Chunk == {k \in Positions : batch_start < k /\ k <= batch_start + batch_size}

\* duration_seconds = total_frames / fps, in tenths of a second
DurationOf(media) == (media.total_frames * 10) \div media.fps

PlanOf(media) ==
    calculate_optimal_frame_count(DurationOf(media), media.fps, media.total_frames)

\* progress_callback: none, or an observer whose call raises.  An observer
\* that hands back a coroutine, failing or not, leaves the writers returning
\* as with no observer (NotifyRaises), so none stands for those too.
BatchObservers == {None, "call_raises"}

\* the task is created and the call is under way: the task directory becomes
\* self.output_dir and a new monitor gets progress_callback, if one was given
BeginTask ==
    /\ phase = "idle"
    /\ validate_out = NotValidated
    /\ \E paths \in SeqsUpTo(FileCatalogue, MaxFiles), cap \in 1..MaxCap :
        /\ input_paths' = paths
        /\ max_base_frames' = cap
        /\ files' = [k \in 1..Len(paths) |-> NewFile]
    /\ \E progress_callback \in BatchObservers :
        /\ callbacks' = IF progress_callback = None THEN <<>> ELSE <<progress_callback>>
        /\ delivered' = IF progress_callback = None THEN <<>> ELSE << <<>> >>
    /\ phase' = "running"
    /\ output_dir' = TASK_OUTPUT_DIR
    /\ UNCHANGED <<batch_size, semaphore, batch_start, disk, all_frame_paths, success_count,
                   failed_count, pre_cull, written, plannerVars, gateVars,
                   completed_files, current_file, current_progress,
                   monitor_result,
                   validateVars, measureVars, apartVars>>

\* process_single_file raised: its except handler called complete_file and
\* that raised again, so gather holds the exception in place of the pair
Escaped(f) == [f EXCEPT !.pc = "done", !.raised = TRUE]

\* mutant: a pipeline that ends is reported as a failure
Finished_AsFailure(f, success) == [f EXCEPT !.pc = "done", !.success = FALSE]

\* the pipeline of file k ends: the semaphore is released, complete_file is
\* called and process_single_file returns (file_path, result)
Finished(f, success) == [f EXCEPT !.pc = "done", !.success = success]

\* what process_single_file hands to gather for a file whose pipeline ended
\* as f: the pair (file_path, result) when complete_file returns; the
\* handler's failure when the call after the result raises and the handler's
\* call returns; the exception when the handler's call raises
Reported(k, f, in_handler) ==
    LET name == Basename(input_paths[k])
        first == get_progress_data(completed_files + 1, Len(input_paths), name, 100)
        second == get_progress_data(completed_files + 2, Len(input_paths), name, 100)
    IN  IF f.pc # "done" \/ ~NotifyRaisesOn(callbacks, first) THEN f
        ELSE IF in_handler \/ NotifyRaisesOn(callbacks, second)
        THEN Escaped([f EXCEPT !.success = FALSE])
        ELSE [f EXCEPT !.success = FALSE]

\* complete_file(name) is called when file k's pipeline has ended in this
\* step.  When the call made with the result raises, the except handler of
\* process_single_file calls complete_file once more; in_handler says that
\* the pipeline itself raised and the only call is the handler's.
CompleteIfDone(k, in_handler) ==
    LET name == Basename(input_paths[k])
        first == get_progress_data(completed_files + 1, Len(input_paths), name, 100)
        second == get_progress_data(completed_files + 2, Len(input_paths), name, 100)
    IN  IF files'[k].pc # "done"
        THEN UNCHANGED <<completed_files, current_file, current_progress, delivered>>
        ELSE IF NotifyRaisesOn(callbacks, first) /\ ~in_handler
        THEN /\ completed_files' = completed_files + 2
             /\ current_file' = name
             /\ current_progress' = 100
             /\ delivered' = Deliver(Deliver(delivered, callbacks, first),
                                     callbacks, second)
        ELSE /\ WriteComplete(name)
             /\ delivered' = Deliver(delivered, callbacks, first)

\* process_single_file begins: update_file_progress(name, 0).  If notifying
\* raises, the handler's complete_file writes and raises in its turn.
StartFile(k) ==
    /\ phase = "running"
    /\ k \in Chunk
    /\ files[k].pc = "pending"
    /\ LET name == Basename(input_paths[k])
           begun == get_progress_data(completed_files, Len(input_paths), name, 0)
           completed == get_progress_data(completed_files + 1, Len(input_paths), name, 100)
       IN  IF NotifyRaisesOn(callbacks, begun)
           THEN /\ WriteComplete(name)
                /\ delivered' = Deliver(Deliver(delivered, callbacks, begun),
                                        callbacks, completed)
                /\ files' = [files EXCEPT ![k] =
                                IF NotifyRaisesOn(callbacks, completed)
                                THEN Escaped(@) ELSE Finished(@, FALSE)]
           ELSE /\ WriteProgress(name, 0)
                /\ delivered' = Deliver(delivered, callbacks, begun)
                /\ files' = [files EXCEPT ![k].pc = "started"]
    /\ UNCHANGED <<input_paths, batch_size, max_base_frames, phase, output_dir, semaphore,
                   batch_start, disk, all_frame_paths, success_count, failed_count,
                   pre_cull, written, plannerVars, gateVars, callbacks,
                   monitor_result,
                   validateVars, measureVars, apartVars>>

\* validate_file; an invalid file completes at once as a failure
ValidateFile(k) ==
    /\ phase = "running"
    /\ k \in Chunk
    /\ files[k].pc = "started"
    /\ IF input_paths[k].valid
       THEN files' = [files EXCEPT ![k].pc = "validated"]
       ELSE files' = [files EXCEPT ![k] = Reported(k, [@ EXCEPT !.pc = "done"], FALSE)]
    /\ CompleteIfDone(k, FALSE)
    /\ UNCHANGED <<input_paths, batch_size, max_base_frames, phase, output_dir, semaphore,
                   batch_start, disk, all_frame_paths, success_count, failed_count,
                   pre_cull, written, plannerVars, gateVars, callbacks,
                   monitor_result,
                   validateVars, measureVars, apartVars>>

\* async with self.semaphore
AcquireSemaphore(k) ==
    /\ phase = "running"
    /\ k \in Chunk
    /\ files[k].pc = "validated"
    /\ semaphore > 0
    /\ semaphore' = semaphore - 1
    /\ files' = [files EXCEPT ![k].pc = "admitted"]
    /\ UNCHANGED <<input_paths, batch_size, max_base_frames, phase, output_dir,
                   batch_start, disk, all_frame_paths, success_count, failed_count,
                   pre_cull, written, plannerVars, gateVars,
                   monitorVars,
                   validateVars, measureVars, apartVars>>

\* inside the semaphore a video is validated again and planned; a planner
\* exception ends the file as a failure, otherwise the capture is opened
PlanVideo(k) ==
    /\ phase = "running"
    /\ k \in Chunk
    /\ files[k].pc = "admitted"
    /\ input_paths[k].type = "video"
    /\ IF PlanOf(input_paths[k]).raised
       THEN /\ files' = [files EXCEPT ![k] = Reported(k, Finished(@, FALSE), TRUE)]
            /\ semaphore' = semaphore + 1
       ELSE /\ files' = [files EXCEPT ![k].pc = "decoding", ![k].cap = "open"]
            /\ UNCHANGED semaphore
    /\ CompleteIfDone(k, TRUE)
    /\ UNCHANGED <<input_paths, batch_size, max_base_frames, phase, output_dir,
                   batch_start, disk, all_frame_paths, success_count, failed_count,
                   pre_cull, written, plannerVars, gateVars,
                   callbacks, monitor_result,
                   validateVars, measureVars, apartVars>>

\* mutant: the record's index is the frame's number in the stream
VideoRecord_IndexedByFrame(media, f, frame) ==
    LET timestamp == Quotient(f.frame_count, media.fps)
        filename == RawFrameName(f.extracted_count, Timestamp(f.frame_count, media.fps))
    IN  [path |-> Join(output_dir, filename), filename |-> filename,
         frame_number |-> f.frame_count, timestamp |-> timestamp,
         extracted_index |-> f.frame_count, quality_score |-> frame.q,
         source_type |-> "video", source_file |-> Basename(media)]

\* the FrameRecord of a retained video frame
VideoRecord(media, f, frame) ==
    LET timestamp == Quotient(f.frame_count, media.fps)
        filename == RawFrameName(f.extracted_count, Timestamp(f.frame_count, media.fps))
    IN  [path |-> Join(output_dir, filename), filename |-> filename,
         frame_number |-> f.frame_count, timestamp |-> timestamp,
         extracted_index |-> f.extracted_count, quality_score |-> frame.q,
         source_type |-> "video", source_file |-> Basename(media)]

\* mutant: the loop is left with the capture still open
Released_Leaked(f, ending) == [f EXCEPT !.ending = ending]

\* the loop is left and finally releases the capture
Released(f, ending) == [f EXCEPT !.cap = "released", !.ending = ending]

\* mutant: a frame that is passed over is counted as extracted
NextFrame_Counted(f) == [f EXCEPT !.frame_count = @ + 1, !.extracted_count = @ + 1]

\* frame_count += 1 at the end of an iteration
NextFrame(f) == [f EXCEPT !.frame_count = @ + 1]

\* mutant: the candidate becomes the comparison frame although imwrite failed
NotStored_Buffered(f) == [f EXCEPT !.has_previous = TRUE, !.previous = f.frame_count]

\* imwrite returned False: nothing of the iteration is kept, previous_frame
\* stays what it was
NotStored(f) == f

\* mutant: the loop goes on until the cap is exceeded
CapReached_Exceeded(extracted_count, cap) == extracted_count > cap

\* extracted_count >= max_base_frames
CapReached(extracted_count, cap) == extracted_count >= cap

\* one iteration of the decode loop of _extract_frames_sync
DecodeStep(k) ==
    /\ phase = "running"
    /\ k \in Chunk
    /\ files[k].pc = "decoding"
    /\ LET media == input_paths[k]
           f == [files[k] EXCEPT !.reads = @ + 1]
           frame_interval == PlanOf(media).frame_interval
           at_end == f.frame_count >= Len(media.stream)
           frame == media.stream[f.frame_count + 1]
           gated == [f EXCEPT !.sampled = Append(@, f.frame_count),
                              !.compared = Append(@, f.previous)]
       IN  IF at_end \/ frame.read = "fail"
           THEN \* ret is False: break, release the capture, return the frames
                /\ files' = [files EXCEPT ![k] =
                                Reported(k, Finished(Released(f, "exhausted"), TRUE), FALSE)]
                /\ semaphore' = semaphore + 1
                /\ UNCHANGED <<disk, written>>
           ELSE IF frame.read = "raise"
           THEN \* the exception leaves through finally: cap.release()
                /\ files' = [files EXCEPT ![k] =
                                Reported(k, Finished(Released(f, "exception"), FALSE), TRUE)]
                /\ semaphore' = semaphore + 1
                /\ UNCHANGED <<disk, written>>
           ELSE IF f.frame_count % frame_interval # 0
           THEN /\ files' = [files EXCEPT ![k] = NextFrame(f)]
                /\ UNCHANGED <<disk, written, semaphore>>
           ELSE IF ~(~f.has_previous \/ frame.gate)
           THEN \* _should_keep_frame returned False
                /\ files' = [files EXCEPT ![k] = NextFrame(gated)]
                /\ UNCHANGED <<disk, written, semaphore>>
           ELSE IF ~frame.saves
           THEN \* imwrite returned False
                /\ files' = [files EXCEPT ![k] = NextFrame(NotStored(gated))]
                /\ UNCHANGED <<disk, written, semaphore>>
           ELSE LET rec == VideoRecord(media, f, frame)
                    kept == [gated EXCEPT !.frame_paths = Append(@, rec),
                                          !.has_previous = TRUE,
                                          !.previous = f.frame_count,
                                          !.extracted_count = @ + 1]
                IN  /\ disk' = WriteFile(disk, rec.path, [src |-> k, frame |-> f.frame_count])
                    /\ written' = written \cup {rec.path}
                    /\ IF CapReached(kept.extracted_count, max_base_frames)
                       THEN /\ files' = [files EXCEPT ![k] =
                                            Reported(k, Finished(Released(kept, "capped"), TRUE),
                                                     FALSE)]
                            /\ semaphore' = semaphore + 1
                       ELSE /\ files' = [files EXCEPT ![k] =
                                            NextFrame(kept)]
                            /\ UNCHANGED semaphore
    /\ CompleteIfDone(k, files'[k].ending = "exception")
    /\ UNCHANGED <<input_paths, batch_size, max_base_frames, phase, output_dir,
                   batch_start, all_frame_paths, success_count, failed_count,
                   pre_cull, plannerVars, gateVars,
                   callbacks, monitor_result,
                   validateVars, measureVars, apartVars>>

\* the output_info of a stored image, as the FrameRecord the merge makes of it
\* (extracted_index is set when it is appended)
ImageRecord(media, frame) ==
    LET filename == ImageName(media.base)
    IN  [path |-> Join(output_dir, filename), filename |-> filename,
         frame_number |-> 0, timestamp |-> Quotient(0, 1), extracted_index |-> 0,
         quality_score |-> frame.q, source_type |-> "image",
         source_file |-> Basename(media)]

\* process_image_file_async inside the semaphore: validate again, read,
\* score and store the image
ProcessImage(k) ==
    /\ phase = "running"
    /\ k \in Chunk
    /\ files[k].pc = "admitted"
    /\ input_paths[k].type = "image"
    /\ LET media == input_paths[k]
           frame == media.stream[1]
           rec == ImageRecord(media, frame)
       IN  IF frame.read = "ok" /\ frame.saves
           THEN /\ disk' = WriteFile(disk, rec.path, [src |-> k, frame |-> 0])
                /\ written' = written \cup {rec.path}
                /\ files' = [files EXCEPT ![k] =
                                Reported(k, Finished([@ EXCEPT !.frame_paths = <<rec>>],
                                                     TRUE), FALSE)]
           ELSE /\ files' = [files EXCEPT ![k] = Reported(k, Finished(@, FALSE), FALSE)]
                /\ UNCHANGED <<disk, written>>
    /\ semaphore' = semaphore + 1
    /\ CompleteIfDone(k, FALSE)
    /\ UNCHANGED <<input_paths, batch_size, max_base_frames, phase, output_dir,
                   batch_start, all_frame_paths, success_count, failed_count,
                   pre_cull, plannerVars, gateVars,
                   callbacks, monitor_result,
                   validateVars, measureVars, apartVars>>

(***************************************************************************)
(* The chunk loop, culling and re-indexing                                 *)
(***************************************************************************)
\* mutant: the directory is put back on a normal return only
Restored_OnReturnOnly(exit) ==
    IF exit = "return" THEN DEFAULT_OUTPUT_DIR ELSE TASK_OUTPUT_DIR

\* finally: self.output_dir = original_output_dir, the directory the
\* extractor had when the call began, whether the call returns or raises
Restored(exit) == DEFAULT_OUTPUT_DIR

RECURSIVE MergeResults_Replacing(_, _, _)
\* mutant: a file's records replace the aggregate list instead of extending it
MergeResults_Replacing(k, last, acc) ==
    IF k > last THEN acc
    ELSE LET f == files[k]
             frames == IF input_paths[k].type = "image"
                       THEN <<[f.frame_paths[1] EXCEPT !.extracted_index = Len(acc[1])]>>
                       ELSE f.frame_paths
         IN  IF f.raised THEN <<acc[1], acc[2], acc[3], TRUE>>
             ELSE MergeResults_Replacing(k + 1, last,
                     IF f.success THEN <<frames, acc[2] + 1, acc[3], FALSE>>
                                  ELSE <<acc[1], acc[2], acc[3] + 1, FALSE>>)

RECURSIVE MergeResults(_, _, _)
\* the result loop over the chunk's results in input order, from position k:
\* <<all_frame_paths, success_count, failed_count, raised>>.  A result that is
\* an exception cannot be unpacked into (file_path, result): the loop raises
\* TypeError there.
MergeResults(k, last, acc) ==
    IF k > last THEN acc
    ELSE LET f == files[k]
             frames == IF input_paths[k].type = "image"
                       THEN <<[f.frame_paths[1] EXCEPT !.extracted_index = Len(acc[1])]>>
                       ELSE f.frame_paths
         IN  IF f.raised THEN <<acc[1], acc[2], acc[3], TRUE>>
             ELSE MergeResults(k + 1, last,
                     IF f.success THEN <<acc[1] \o frames, acc[2] + 1, acc[3], FALSE>>
                                  ELSE <<acc[1], acc[2], acc[3] + 1, FALSE>>)

\* asyncio.gather returned for the chunk: its results are merged in input
\* order and the loop moves to the next chunk; if the loop raises, the call
\* raises and finally restores self.output_dir
MergeChunk ==
    /\ phase = "running"
    /\ batch_start < Len(input_paths)
    /\ \A k \in Chunk : files[k].pc = "done"
    /\ LET last == Min(batch_start + batch_size, Len(input_paths))
           merged == MergeResults(batch_start + 1, last,
                                  <<all_frame_paths, success_count, failed_count, FALSE>>)
       IN  /\ all_frame_paths' = merged[1]
           /\ success_count' = merged[2]
           /\ failed_count' = merged[3]
           /\ IF merged[4]
              THEN /\ phase' = "raised"
                   /\ output_dir' = Restored("raise")
                   /\ UNCHANGED batch_start
              ELSE /\ batch_start' = batch_start + batch_size
                   /\ UNCHANGED <<phase, output_dir>>
    /\ UNCHANGED <<input_paths, batch_size, max_base_frames, semaphore,
                   files, disk, pre_cull, written, plannerVars, gateVars, monitorVars,
                   validateVars, measureVars, apartVars>>

RECURSIVE InsertByQuality(_, _)
\* rec placed after every record of sorted whose quality_score is not lower
InsertByQuality(sorted, rec) ==
    IF sorted = <<>> THEN <<rec>>
    ELSE IF Head(sorted).quality_score >= rec.quality_score
         THEN <<Head(sorted)>> \o InsertByQuality(Tail(sorted), rec)
         ELSE <<rec>> \o sorted

RECURSIVE SortByQualityDescFrom(_, _)
SortByQualityDescFrom(list, sorted) ==
    IF list = <<>> THEN sorted
    ELSE SortByQualityDescFrom(Tail(list), InsertByQuality(sorted, Head(list)))

\* mutant: the list is truncated without being sorted
SortByQualityDesc_Unsorted(list) == list

\* list.sort(key=quality_score, reverse=True): stable, highest first
SortByQualityDesc(list) == SortByQualityDescFrom(list, <<>>)

RECURSIVE RemoveAll(_, _)
\* os.remove of every listed record's path that exists
RemoveAll(d, list) ==
    IF list = <<>> THEN d
    ELSE RemoveAll(IF Exists(d, Head(list).path) THEN RemoveFile(d, Head(list).path) ELSE d,
                   Tail(list))

\* every chunk is merged: the global cap is enforced
Cull ==
    /\ phase = "running"
    /\ batch_start >= Len(input_paths)
    /\ pre_cull' = all_frame_paths
    /\ IF Len(all_frame_paths) > max_base_frames
       THEN LET sorted == SortByQualityDesc(all_frame_paths)
            IN  /\ disk' = RemoveAll(disk, SubSeq(sorted, max_base_frames + 1, Len(sorted)))
                /\ all_frame_paths' = SubSeq(sorted, 1, max_base_frames)
       ELSE UNCHANGED <<disk, all_frame_paths>>
    /\ phase' = "culled"
    /\ UNCHANGED <<input_paths, batch_size, max_base_frames, output_dir, semaphore,
                   batch_start, files, success_count, failed_count, written,
                   plannerVars, gateVars,
                   monitorVars,
                   validateVars, measureVars, apartVars>>

RECURSIVE RenameFrames_Shifting(_, _, _)
\* mutant: the new name is numbered from the record's own extracted_index
\* instead of its position in the list
RenameFrames_Shifting(i, d, list) ==
    IF i > Len(list) THEN <<d, list>>
    ELSE LET frame_info == list[i]
             old_path == frame_info.path
             new_filename == IndexedName(frame_info.extracted_index + 1, frame_info.source_type,
                                         CleanName(frame_info.source_file))
             new_path == Join(output_dir, new_filename)
         IN  IF old_path # new_path /\ Exists(d, old_path)
             THEN RenameFrames_Shifting(i + 1,
                      RenameFile(IF Exists(d, new_path) THEN RemoveFile(d, new_path) ELSE d,
                                 old_path, new_path),
                      [list EXCEPT ![i].path = new_path, ![i].filename = new_filename,
                                   ![i].extracted_index = frame_info.extracted_index + 1])
             ELSE RenameFrames_Shifting(i + 1, d, list)

RECURSIVE RenameFrames(_, _, _)
\* _rename_files from position i: <<disk, all_frame_paths>>
RenameFrames(i, d, list) ==
    IF i > Len(list) THEN <<d, list>>
    ELSE LET frame_info == list[i]
             old_path == frame_info.path
             new_filename == IndexedName(i - 1, frame_info.source_type,
                                         CleanName(frame_info.source_file))
             new_path == Join(output_dir, new_filename)
         IN  IF old_path # new_path /\ Exists(d, old_path)
             THEN RenameFrames(i + 1,
                      RenameFile(IF Exists(d, new_path) THEN RemoveFile(d, new_path) ELSE d,
                                 old_path, new_path),
                      [list EXCEPT ![i].path = new_path, ![i].filename = new_filename,
                                   ![i].extracted_index = i - 1])
             ELSE RenameFrames(i + 1, d, list)

\* _rename_frames_async, then the result is returned and finally restores
\* self.output_dir
RenameAndReturn ==
    /\ phase = "culled"
    /\ LET renamed == RenameFrames(1, disk, all_frame_paths)
       IN  /\ disk' = renamed[1]
           /\ all_frame_paths' = renamed[2]
    /\ phase' = "returned"
    /\ output_dir' = Restored("return")
    /\ UNCHANGED <<input_paths, batch_size, max_base_frames, semaphore, batch_start, files,
                   success_count, failed_count, pre_cull, written, plannerVars, gateVars,
                   monitorVars,
                   validateVars, measureVars, apartVars>>

\* the extractor as constructed: _setup_resources sizes the semaphore with the
\* profile's batch size, no task has been started
Init ==
    /\ plan_in = NoArgs
    /\ plan_out = NoPlan
    /\ gate_in = NoGateArgs
    /\ gate_out = NoGateResult
    /\ batch_size \in 1..MaxBatchSize
    /\ semaphore = batch_size
    /\ input_paths = <<>>
    /\ max_base_frames = 1
    /\ phase = "idle"
    /\ output_dir = DEFAULT_OUTPUT_DIR
    /\ batch_start = 0
    /\ files = <<>>
    /\ disk = <<>>
    /\ all_frame_paths = <<>>
    /\ success_count = 0
    /\ failed_count = 0
    /\ pre_cull = <<>>
    /\ written = {}
    /\ MonitorIdle
    /\ ApartIdle

\* validate_file called directly on the idle extractor
CallValidate ==
    /\ phase = "idle"
    /\ validate_out = NotValidated
    /\ \E file \in HostFiles :
        /\ validate_in' = file
        /\ validate_out' = validate_file(file)
    /\ UNCHANGED <<plannerVars, gateVars, batchVars, monitorVars, apartVars, measureVars>>

Next ==
    \/ CallValidate
    \/ BeginTask
    \/ \E k \in Positions : StartFile(k)
    \/ \E k \in Positions : ValidateFile(k)
    \/ \E k \in Positions : AcquireSemaphore(k)
    \/ \E k \in Positions : PlanVideo(k)
    \/ \E k \in Positions : DecodeStep(k)
    \/ \E k \in Positions : ProcessImage(k)
    \/ MergeChunk
    \/ Cull
    \/ RenameAndReturn

Spec == Init /\ [][Next]_vars

(***************************************************************************)
(* Properties of a returned batch                                          *)
(***************************************************************************)
Returned_Batch == phase = "returned"

\* a record is followed through sorting and renaming by its source file and
\* the frame it was taken from
KeyOf(rec) == <<rec.source_file, rec.frame_number>>

Keys(list) == {KeyOf(list[i]) : i \in DOMAIN list}

\* the position at which the record with this key was appended
AppendPosition(key) == CHOOSE i \in DOMAIN pre_cull : KeyOf(pre_cull[i]) = key

Dropped == {i \in DOMAIN pre_cull : KeyOf(pre_cull[i]) \notin Keys(all_frame_paths)}
Kept == {i \in DOMAIN pre_cull : KeyOf(pre_cull[i]) \in Keys(all_frame_paths)}

C8_FileIffRecord ==
    Returned_Batch =>
        /\ \A i \in DOMAIN all_frame_paths : Exists(disk, all_frame_paths[i].path)
        /\ \A path \in DOMAIN disk :
              \E i \in DOMAIN all_frame_paths : all_frame_paths[i].path = path

\* C9: in a returned batch the record at position i has extracted_index i, the
\* file name frame_{i:04d}_{source_type}_{source_basename}.jpg and a path in
\* the task output directory.
C9_ContiguousIndex ==
    Returned_Batch =>
        \A i \in DOMAIN all_frame_paths :
            LET rec == all_frame_paths[i]
            IN  /\ rec.extracted_index = i - 1
                /\ rec.filename = IndexedName(i - 1, rec.source_type, CleanName(rec.source_file))
                /\ rec.path = Join(TASK_OUTPUT_DIR, rec.filename)

\* C10: the returned records are in the relative order in which they were
\* appended to the aggregate list.
C10_AppendOrder ==
    Returned_Batch =>
        \A i, j \in DOMAIN all_frame_paths :
            i < j => AppendPosition(KeyOf(all_frame_paths[i]))
                        < AppendPosition(KeyOf(all_frame_paths[j]))

TaskResult ==
    [success |-> success_count > 0, total_files |-> Len(input_paths),
     success_count |-> success_count, failed_count |-> failed_count,
     frame_paths |-> all_frame_paths]

Succeeded == {k \in Positions : files[k].success}

\* C12: an exception in one file's pipeline fails no other file and never
\* makes the call raise: the call returns, every file has then run to its end
\* and is counted exactly once, as a success or as a failure.
C12_FailureIsolation ==
    /\ phase # "raised"
    /\ Returned_Batch =>
          /\ \A k \in Positions : files[k].pc = "done"
          /\ success_count = Cardinality(Succeeded)
          /\ failed_count = Cardinality(Positions \ Succeeded)
          /\ success_count + failed_count = Len(input_paths)

\* C13: success = (success_count > 0); a batch in which no file succeeds
\* returns success = false, failed_count = total_files and no frames instead
\* of raising; every returned record comes from a file counted as a success.
C13_BatchSuccess ==
    /\ (phase = "raised") => Succeeded # {}
    /\ Returned_Batch =>
          /\ TaskResult.success = (Succeeded # {})
          /\ (Succeeded = {}) =>
                /\ TaskResult.failed_count = TaskResult.total_files
                /\ TaskResult.frame_paths = <<>>
          /\ \A i \in DOMAIN TaskResult.frame_paths :
                \E k \in Succeeded :
                    TaskResult.frame_paths[i].source_file = Basename(input_paths[k])

\* without an observer whose call raises, C12 and C13 hold
IsolationWithoutRaisingObserver ==
    ~NotifyRaises(callbacks) => C12_FailureIsolation /\ C13_BatchSuccess

\* the class of a validation error
ErrorClass(error) ==
    CASE error \in {"cannot open video", "cannot read image", "validation raised"} -> "unreadable"
      [] error \in {"bad video parameters", "bad image size"} -> "bad metadata"
      [] OTHER -> error

\* the first check a file fails, in the order missing, extension, size,
\* readability, metadata; None if it passes them all
FirstFailure(file) ==
    IF ~file.exists THEN "missing"
    ELSE IF Lower(file.ext) \notin SUPPORTED_VIDEO_FORMATS \cup SUPPORTED_IMAGE_FORMATS
         THEN "unsupported format"
    ELSE IF file.size > DEFAULT_MAX_FILE_SIZE_MB * BYTES_TO_MB THEN "too large"
    ELSE IF file.probe # "ok" THEN "unreadable"
    ELSE IF file.width <= 0 \/ file.height <= 0 THEN "bad metadata"
    ELSE IF Lower(file.ext) \in SUPPORTED_VIDEO_FORMATS
            /\ (file.total_frames <= 0 \/ file.fps <= 0) THEN "bad metadata"
    ELSE None

\* the files of the batch that validate_file rejected
RejectedInBatch ==
    {k \in Positions : files[k].pc = "done" /\ ~files[k].raised /\ ~input_paths[k].valid}

\* C14: validate_file rejects a file exactly when it fails one of the checks,
\* with valid = false and the error of the first failing check (a file of
\* exactly the size limit passes the size check); in a batch a rejected file
\* has no FrameRecord, is counted once in failed_count and does not make the
\* call raise.
C14_ValidationRejects ==
    /\ validate_out # NotValidated =>
          /\ validate_out.valid = (FirstFailure(validate_in) = None)
          /\ ErrorClass(validate_out.error) = FirstFailure(validate_in)
    /\ \A k \in RejectedInBatch :
          /\ files[k].frame_paths = <<>>
          /\ ~files[k].success
          /\ phase # "raised"
          /\ \A i \in DOMAIN all_frame_paths :
                all_frame_paths[i].source_file # Basename(input_paths[k])
          /\ k <= batch_start => failed_count >= Cardinality({j \in RejectedInBatch : j <= batch_start})
    /\ Returned_Batch => failed_count = Cardinality(Positions \ Succeeded)

\* C14 witness: a returned batch of a rejected file and a file that succeeded.
C14_Witness ==
    /\ Returned_Batch
    /\ RejectedInBatch # {}
    /\ Succeeded # {}
    /\ failed_count = 1

\* C14, direct call: a file of exactly the size limit is accepted and a file
\* one byte larger is rejected as too large.
C14_WitnessSizeLimit ==
    /\ validate_out.valid
    /\ validate_in.size = max_file_size_bytes

\* files whose pipeline has started and not ended, and files inside the
\* section guarded by the semaphore
InFlight == {k \in Positions : files[k].pc \notin {"pending", "done"}}
InCriticalSection == {k \in Positions : files[k].pc \in {"admitted", "decoding"}}

\* C15: at every moment at most batch_size files are in flight and at most
\* batch_size files are inside the semaphore's critical section.
C15_AdmissionControl ==
    /\ Cardinality(InFlight) <= batch_size
    /\ Cardinality(InCriticalSection) <= batch_size
    /\ semaphore = batch_size - Cardinality(InCriticalSection)

\* C15 witness: batch_size files, more than one, are inside the critical
\* section at once and the semaphore has no permit left.
C15_Witness ==
    /\ phase = "running"
    /\ batch_size > 1
    /\ Cardinality(InCriticalSection) = batch_size
    /\ semaphore = 0

\* C15 witness: a file waits, not started, while batch_size others are in flight.
C15_WitnessBackpressure ==
    /\ Cardinality(InFlight) = batch_size
    /\ \E k \in Positions : files[k].pc = "pending" /\ k \notin Chunk

\* the path a returned record had when it was appended
PathWhenAppended(rec) == pre_cull[AppendPosition(KeyOf(rec))].path

\* the files that wrote to a path, and the image the path holds when the
\* files of a chunk complete one after the other in input order
WritersOf(path) ==
    {k \in Positions : \E i \in DOMAIN files[k].frame_paths : files[k].frame_paths[i].path = path}

LastInInputOrder(path) == CHOOSE k \in WritersOf(path) : \A j \in WritersOf(path) : j <= k

InputOrderImage(path) ==
    LET k == LastInInputOrder(path)
        i == CHOOSE i \in DOMAIN files[k].frame_paths : files[k].frame_paths[i].path = path
    IN  [src |-> k, frame |-> files[k].frame_paths[i].frame_number]

\* C16: the returned result does not depend on the order in which the files
\* of a chunk complete: every output file of a returned record holds the image
\* it holds when the files complete in input order.
C16_CompletionOrderIndependent ==
    Returned_Batch =>
        \A i \in DOMAIN all_frame_paths :
            Exists(disk, all_frame_paths[i].path) =>
                disk[all_frame_paths[i].path]
                    = InputOrderImage(PathWhenAppended(all_frame_paths[i]))

(***************************************************************************)
(* Two process_multiple_files_async calls overlapping on one extractor.    *)
(* Here a directory is the sequence of its path components, and only what  *)
(* the calls do to self.output_dir and where they put files is followed.   *)
(***************************************************************************)
MaxTaskFrames == 2

TaskIds == <<"t1", "t2">>
Invocations == DOMAIN TaskIds

\* os.path.join(self.output_dir, task_id), self.output_dir read at the call
create_task_output_dir(dir, task_id) == Append(dir, task_id)

NotStarted ==
    [pc |-> "idle", task_output_dir |-> <<>>, original_output_dir |-> <<>>, frames_left |-> 0]

InitTwoTasks ==
    /\ plan_in = NoArgs
    /\ plan_out = NoPlan
    /\ gate_in = NoGateArgs
    /\ gate_out = NoGateResult
    /\ input_paths = <<>>
    /\ batch_size = 1
    /\ max_base_frames = 1
    /\ phase = "idle"
    /\ output_dir = <<DEFAULT_OUTPUT_DIR>>
    /\ semaphore = 1
    /\ batch_start = 0
    /\ files = <<>>
    /\ disk = <<>>
    /\ all_frame_paths = <<>>
    /\ success_count = 0
    /\ failed_count = 0
    /\ pre_cull = <<>>
    /\ written = {}
    /\ MonitorIdle
    /\ validate_in = [exists |-> FALSE, ext |-> "", size |-> 0, probe |-> "ok",
                      total_frames |-> 0, fps |-> 0, width |-> 0, height |-> 0]
    /\ validate_out = NotValidated
    /\ MeasureIdle
    /\ host = None
    /\ extractor = None
    /\ tasks = [t \in Invocations |-> NotStarted]
    /\ task_writes = {}

\* lines 874-876: the task directory is made under the current
\* self.output_dir, which is saved and replaced, with no await in between
EnterTask(t) ==
    /\ tasks[t].pc = "idle"
    /\ \E frames \in 0..MaxTaskFrames :
        tasks' = [tasks EXCEPT ![t] =
                    [pc |-> "running",
                     task_output_dir |-> create_task_output_dir(output_dir, TaskIds[t]),
                     original_output_dir |-> output_dir,
                     frames_left |-> frames]]
    /\ output_dir' = create_task_output_dir(output_dir, TaskIds[t])
    /\ UNCHANGED <<task_writes, host, extractor>>
    /\ UNCHANGED <<plannerVars, gateVars, monitorVars, validateVars, measureVars, input_paths, batch_size,
                   max_base_frames, phase, semaphore, batch_start, files, disk,
                   all_frame_paths, success_count, failed_count, pre_cull, written>>

\* a frame or image of call t is stored: os.path.join(self.output_dir, filename)
\* reads self.output_dir at that moment (lines 752 and 834)
StoreFrame(t) ==
    /\ tasks[t].pc = "running"
    /\ tasks[t].frames_left > 0
    /\ tasks' = [tasks EXCEPT ![t].frames_left = @ - 1]
    /\ task_writes' = task_writes \cup {[task |-> t, op |-> "write", dir |-> output_dir]}
    /\ UNCHANGED <<output_dir, host, extractor>>
    /\ UNCHANGED <<plannerVars, gateVars, monitorVars, validateVars, measureVars, input_paths, batch_size,
                   max_base_frames, phase, semaphore, batch_start, files, disk,
                   all_frame_paths, success_count, failed_count, pre_cull, written>>

\* _rename_frames_async of call t: new_path is made from self.output_dir as it
\* is then (line 1007)
RenameTask(t) ==
    /\ tasks[t].pc = "running"
    /\ tasks[t].frames_left = 0
    /\ tasks' = [tasks EXCEPT ![t].pc = "renamed"]
    /\ task_writes' = task_writes \cup {[task |-> t, op |-> "rename", dir |-> output_dir]}
    /\ UNCHANGED <<output_dir, host, extractor>>
    /\ UNCHANGED <<plannerVars, gateVars, monitorVars, validateVars, measureVars, input_paths, batch_size,
                   max_base_frames, phase, semaphore, batch_start, files, disk,
                   all_frame_paths, success_count, failed_count, pre_cull, written>>

\* finally: self.output_dir = original_output_dir
LeaveTask(t) ==
    /\ tasks[t].pc = "renamed"
    /\ tasks' = [tasks EXCEPT ![t].pc = "returned"]
    /\ output_dir' = tasks[t].original_output_dir
    /\ UNCHANGED <<task_writes, host, extractor>>
    /\ UNCHANGED <<plannerVars, gateVars, monitorVars, validateVars, measureVars, input_paths, batch_size,
                   max_base_frames, phase, semaphore, batch_start, files, disk,
                   all_frame_paths, success_count, failed_count, pre_cull, written>>

NextTwoTasks ==
    \/ \E t \in Invocations : EnterTask(t)
    \/ \E t \in Invocations : StoreFrame(t)
    \/ \E t \in Invocations : RenameTask(t)
    \/ \E t \in Invocations : LeaveTask(t)

SpecTwoTasks == InitTwoTasks /\ [][NextTwoTasks]_vars

\* C17: two overlapping calls do not interfere: each task directory is made
\* directly under the base directory, every frame of a call is written and
\* renamed inside that call's own directory, and once both calls have returned
\* self.output_dir is the base directory again.
C17_TasksDoNotInterfere ==
    /\ \A t \in Invocations :
          tasks[t].pc # "idle" =>
              tasks[t].task_output_dir = <<DEFAULT_OUTPUT_DIR, TaskIds[t]>>
    /\ \A w \in task_writes : w.dir = tasks[w.task].task_output_dir
    /\ (\A t \in Invocations : tasks[t].pc = "returned") =>
          output_dir = <<DEFAULT_OUTPUT_DIR>>

\* calls that do not overlap do not interfere
Overlapped ==
    \E t, u \in Invocations :
        /\ t # u
        /\ tasks[u].pc # "idle"
        /\ tasks[u].original_output_dir = tasks[t].task_output_dir

C17_HoldsWithoutOverlap == ~Overlapped => C17_TasksDoNotInterfere

(***************************************************************************)
(* AsyncProgressMonitor driven directly: observers are registered, then    *)
(* update_file_progress and complete_file are called.                      *)
(***************************************************************************)
MaxCallbacks == 2
MaxWrites == 2

FileNames == {<<"a", "mp4">>, <<"b", "mp4">>}
ProgressValues == {0, 50}

InitMonitor ==
    /\ plan_in = NoArgs
    /\ plan_out = NoPlan
    /\ gate_in = NoGateArgs
    /\ gate_out = NoGateResult
    /\ BatchIdle

\* add_callback
AddCallback ==
    /\ monitor_result.writes = 0
    /\ Len(callbacks) < MaxCallbacks
    /\ \E kind \in ObserverKinds :
        callbacks' = Append(callbacks, kind)
    /\ delivered' = Append(delivered, <<>>)
    /\ UNCHANGED <<completed_files, current_file, current_progress, monitor_result>>
    /\ UNCHANGED <<plannerVars, gateVars, batchVars, validateVars, measureVars, apartVars>>

\* get_progress_data, taken after the write that is being notified
Snapshot ==
    [completed_files |-> completed_files', current_file |-> current_file',
     current_file_progress |-> current_progress']

\* the observers callback(progress_data) is called on: the loop stops at the
\* first one whose call raises
Called == {i \in DOMAIN callbacks : \A j \in 1..(i - 1) : callbacks[j] # "call_raises"}

\* _notify_callbacks after a write
NotifyCallbacks ==
    /\ delivered' = [i \in DOMAIN callbacks |->
                        IF i \in Called THEN Append(delivered[i], Snapshot) ELSE delivered[i]]
    /\ monitor_result' = [outcome |-> IF NotifyRaises(callbacks) THEN "raised" ELSE "returned",
                          writes |-> monitor_result.writes + 1]

UpdateFileProgress ==
    /\ monitor_result.writes < MaxWrites
    /\ \E filename \in FileNames, progress \in ProgressValues :
        WriteProgress(filename, progress)
    /\ NotifyCallbacks
    /\ UNCHANGED callbacks
    /\ UNCHANGED <<plannerVars, gateVars, batchVars, validateVars, measureVars, apartVars>>

CompleteFile ==
    /\ monitor_result.writes < MaxWrites
    /\ \E filename \in FileNames : WriteComplete(filename)
    /\ NotifyCallbacks
    /\ UNCHANGED callbacks
    /\ UNCHANGED <<plannerVars, gateVars, batchVars, validateVars, measureVars, apartVars>>

NextMonitor ==
    \/ AddCallback
    \/ UpdateFileProgress
    \/ CompleteFile

SpecMonitor == InitMonitor /\ [][NextMonitor]_vars

Written == monitor_result.writes > 0

\* C18: after every write each registered observer has been invoked exactly
\* once per write, the last time with a snapshot of the monitor as that write
\* left it, and no observer failure leaves the writer: the write returns.
C18_ObserversIsolated ==
    Written =>
        /\ monitor_result.outcome = "returned"
        /\ \A i \in DOMAIN callbacks :
              /\ Len(delivered[i]) = monitor_result.writes
              /\ delivered[i][Len(delivered[i])]
                    = [completed_files |-> completed_files, current_file |-> current_file,
                       current_file_progress |-> current_progress]

\* with observers that hand back a coroutine, failing or not, C18 holds
C18_HoldsForCoroutines ==
    ~NotifyRaises(callbacks) => C18_ObserversIsolated

(***************************************************************************)
(* DevicePerformanceDetector and the construction of AsyncFrameExtractor   *)
(*                                                                         *)
(* The host is what psutil answers: the physical core count (or None:      *)
(* cores_known is FALSE), the total memory in GiB, and which telemetry     *)
(* query, if any, raises.                                                  *)
(***************************************************************************)
CoreSamples == {1, 2, 3, 4, 7, 8, 16}
MemorySamples == {3, 4, 7, 8, 15, 16}
ConstructionQueries == {"cpu_count", "virtual_memory at construction"}
ProfileQueries == {"cpu_percent", "virtual_memory", "disk_usage"}

Hosts ==
    [cores : CoreSamples, cores_known : BOOLEAN, memory_gb : MemorySamples,
     failing : {None} \cup ConstructionQueries \cup ProfileQueries]

ConcurrencyConfig(max_workers, batch_size_, memory_buffer_mb, io_workers) ==
    [max_workers |-> max_workers, batch_size |-> batch_size_,
     memory_buffer_mb |-> memory_buffer_mb, io_workers |-> io_workers]

\* mutant: the tier is taken from the core count alone
calculate_performance_level_CoresOnly(cpu_count, memory_gb) ==
    IF cpu_count >= 8 THEN "high"
    ELSE IF cpu_count >= 4 THEN "medium"
    ELSE IF cpu_count >= 2 THEN "low"
    ELSE "minimal"

\* _calculate_performance_level
calculate_performance_level(cpu_count, memory_gb) ==
    IF cpu_count >= 8 /\ memory_gb >= 16 THEN "high"
    ELSE IF cpu_count >= 4 /\ memory_gb >= 8 THEN "medium"
    ELSE IF cpu_count >= 2 /\ memory_gb >= 4 THEN "low"
    ELSE "minimal"

\* _get_concurrency_config
get_concurrency_config(cpu_count, performance_level) ==
    CASE performance_level = "high" -> ConcurrencyConfig(Min(cpu_count * 2, 16), 8, 2048, 4)
      [] performance_level = "medium" -> ConcurrencyConfig(Min(cpu_count + 2, 8), 4, 1024, 2)
      [] performance_level = "low" -> ConcurrencyConfig(Min(cpu_count, 4), 2, 512, 1)
      [] OTHER -> ConcurrencyConfig(2, 1, 256, 1)

Profile(source, cores, level, config) ==
    [source |-> source, cpu_cores_physical |-> cores, performance_level |-> level,
     concurrency_config |-> config, recommended_batch_size |-> config.batch_size,
     max_workers |-> config.max_workers]

\* _get_default_profile
get_default_profile == Profile("default", 4, "medium", ConcurrencyConfig(4, 2, 512, 1))

\* get_performance_profile: any exception inside it, a failing query or the
\* comparison of a core count of None, gives the default profile
get_performance_profile(h) ==
    IF h.failing \in ProfileQueries \/ ~h.cores_known
    THEN get_default_profile
    ELSE LET level == calculate_performance_level(h.cores, h.memory_gb)
         IN  Profile("detected", h.cores, level, get_concurrency_config(h.cores, level))

NotBuilt == [state |-> "none", performance_profile |-> get_default_profile, semaphore |-> 0]

InitProfile ==
    /\ plan_in = NoArgs
    /\ plan_out = NoPlan
    /\ gate_in = NoGateArgs
    /\ gate_out = NoGateResult
    /\ input_paths = <<>>
    /\ batch_size = 1
    /\ max_base_frames = 1
    /\ phase = "idle"
    /\ output_dir = DEFAULT_OUTPUT_DIR
    /\ semaphore = 1
    /\ batch_start = 0
    /\ files = <<>>
    /\ disk = <<>>
    /\ all_frame_paths = <<>>
    /\ success_count = 0
    /\ failed_count = 0
    /\ pre_cull = <<>>
    /\ written = {}
    /\ MonitorIdle
    /\ validate_in = [exists |-> FALSE, ext |-> "", size |-> 0, probe |-> "ok",
                      total_frames |-> 0, fps |-> 0, width |-> 0, height |-> 0]
    /\ validate_out = NotValidated
    /\ MeasureIdle
    /\ host \in Hosts
    /\ extractor = NotBuilt
    /\ tasks = <<>>
    /\ task_writes = {}

\* AsyncFrameExtractor.__init__: the detector is constructed first, with its
\* queries outside any try; then the profile is detected or defaulted and
\* _setup_resources sizes the semaphore
ConstructExtractor ==
    /\ extractor.state = "none"
    /\ \E auto_detect_performance \in BOOLEAN :
        extractor' =
            IF host.failing \in ConstructionQueries
            THEN [extractor EXCEPT !.state = "raised"]
            ELSE LET performance_profile ==
                        IF auto_detect_performance THEN get_performance_profile(host)
                        ELSE get_default_profile
                 IN  [state |-> "built", performance_profile |-> performance_profile,
                      semaphore |-> performance_profile.concurrency_config.batch_size]
    /\ UNCHANGED <<host, tasks, task_writes>>
    /\ UNCHANGED <<plannerVars, gateVars, batchVars, monitorVars, validateVars, measureVars>>

NextProfile ==
    \/ ConstructExtractor

SpecProfile == InitProfile /\ [][NextProfile]_vars

Built == extractor.state = "built"

\* C19: a failure of any host telemetry query, at the construction of the
\* detector or inside get_performance_profile, never aborts: the extractor
\* is still constructed, and it holds the default profile.
C19_TelemetryNeverFatal ==
    /\ extractor.state # "raised"
    /\ (Built /\ host.failing # None) => extractor.performance_profile = get_default_profile

\* what does hold: a query that fails inside get_performance_profile gives
\* an extractor with the default profile
C19_HoldsInsideGetProfile ==
    (host.failing \in ProfileQueries /\ extractor.state # "none")
        => Built /\ extractor.performance_profile = get_default_profile

\* the tier table, as a function of the profile's own tier and core count
TierRow(p) == get_concurrency_config(p.cpu_cores_physical, p.performance_level)

\* C20: in every profile an extractor holds (detected, fallback or default)
\* the concurrency config is the tier table's row of the profile's tier.
C20_ConfigIsTierRow ==
    Built => extractor.performance_profile.concurrency_config
                = TierRow(extractor.performance_profile)

\* what does hold: every detected profile carries the row of its tier, and
\* the semaphore is sized by that row's batch size
C20_HoldsForDetected ==
    (Built /\ extractor.performance_profile.source = "detected")
        => /\ extractor.performance_profile.concurrency_config
                = TierRow(extractor.performance_profile)
           /\ extractor.performance_profile.performance_level
                = calculate_performance_level(host.cores, host.memory_gb)
           /\ extractor.semaphore
                = TierRow(extractor.performance_profile).batch_size

Detected == Built /\ extractor.performance_profile.source = "detected"

\* C21: _calculate_performance_level returns the first matching tier in the
\* order high (cores >= 8 and memory >= 16), medium (cores >= 4 and memory
\* >= 8), low (cores >= 2 and memory >= 4), otherwise minimal; many cores
\* with little memory, or much memory with few cores, take the lower tier.
C21_FirstMatchingTier ==
    Detected =>
        LET c == host.cores
            m == host.memory_gb
            level == extractor.performance_profile.performance_level
            high == c >= 8 /\ m >= 16
            medium == c >= 4 /\ m >= 8
            low == c >= 2 /\ m >= 4
        IN  /\ level = "high" <=> high
            /\ level = "medium" <=> (~high /\ medium)
            /\ level = "low" <=> (~high /\ ~medium /\ low)
            /\ level = "minimal" <=> (~high /\ ~medium /\ ~low)

\* sixteen cores with three GiB of memory: minimal
C21_Witness ==
    /\ Detected
    /\ host.cores >= 8
    /\ host.memory_gb < 4
    /\ extractor.performance_profile.performance_level = "minimal"

\* sixteen GiB with three cores: low
C21_WitnessFewCores ==
    /\ Detected
    /\ host.cores = 3
    /\ host.memory_gb >= 16
    /\ extractor.performance_profile.performance_level = "low"

(***************************************************************************)
(* The per-file pipeline on every short stream                             *)
(*                                                                         *)
(* One file is submitted to process_multiple_files_async and followed      *)
(* through process_single_file, extract_frames_async (or                   *)
(* process_image_file_async) and the decode loop.  The videos are all the  *)
(* streams of up to MaxStreamFrames frames in which a frame is read and    *)
(* stored, read and not stored because imwrite returns False, read and     *)
(* rejected by the gate, not read (read returns False), or an exception    *)
(* is raised in the loop.                                                  *)
(***************************************************************************)
MaxStreamFrames == 4

FrameKinds ==
    { Frame("ok", TRUE, 1, TRUE), Frame("ok", TRUE, 1, FALSE), Frame("ok", FALSE, 1, TRUE),
      Frame("fail", FALSE, 1, FALSE), Frame("raise", FALSE, 1, FALSE) }

PipelineVideos ==
    UNION { { Media("v", "mp4", validate_file(SoundFile(".mp4", n, 10)).valid, "video",
                    n, 10, stream) : stream \in [1..n -> FrameKinds] }
            : n \in 1..MaxStreamFrames }

\* an image that is stored, one whose imwrite returns False, one that
\* imread cannot read
PipelineImages ==
    { Media("i", "png", validate_file(SoundFile(".png", 0, 0)).valid, "image", 0, 0,
            << frame >>)
        : frame \in { Frame("ok", TRUE, 1, TRUE), Frame("ok", TRUE, 1, FALSE),
                      Frame("fail", FALSE, 1, FALSE) } }

PipelineFiles ==
    PipelineVideos \cup PipelineImages
        \cup { Media("x", "mp4", validate_file(MissingFile(".mp4")).valid, "video", 0, 0, << >>) }

InitPipeline ==
    /\ plan_in = NoArgs
    /\ plan_out = NoPlan
    /\ gate_in = NoGateArgs
    /\ gate_out = NoGateResult
    /\ batch_size = 1
    /\ semaphore = batch_size
    /\ input_paths = <<>>
    /\ max_base_frames = 1
    /\ phase = "idle"
    /\ output_dir = DEFAULT_OUTPUT_DIR
    /\ batch_start = 0
    /\ files = <<>>
    /\ disk = <<>>
    /\ all_frame_paths = <<>>
    /\ success_count = 0
    /\ failed_count = 0
    /\ pre_cull = <<>>
    /\ written = {}
    /\ MonitorIdle
    /\ ApartIdle

\* process_multiple_files_async([file], max_base_frames = cap), no observer
SubmitFile ==
    /\ phase = "idle"
    /\ \E file \in PipelineFiles, cap \in 1..MaxCap :
        /\ input_paths' = <<file>>
        /\ max_base_frames' = cap
        /\ files' = <<NewFile>>
    /\ phase' = "running"
    /\ output_dir' = TASK_OUTPUT_DIR
    /\ UNCHANGED <<batch_size, semaphore, batch_start, disk, all_frame_paths, success_count,
                   failed_count, pre_cull, written, plannerVars, gateVars, monitorVars,
                   validateVars, measureVars, apartVars>>

NextPipeline ==
    \/ SubmitFile
    \/ \E k \in Positions : StartFile(k)
    \/ \E k \in Positions : ValidateFile(k)
    \/ \E k \in Positions : AcquireSemaphore(k)
    \/ \E k \in Positions : PlanVideo(k)
    \/ \E k \in Positions : DecodeStep(k)
    \/ \E k \in Positions : ProcessImage(k)
    \/ MergeChunk
    \/ Cull
    \/ RenameAndReturn

SpecPipeline == InitPipeline /\ [][NextPipeline]_vars

\* every coroutine and pool job that can run is run in the end
SpecPipelineLive == SpecPipeline /\ WF_vars(NextPipeline)

(***************************************************************************)
(* Properties of the per-file pipeline (checked under SpecPipeline)        *)
(***************************************************************************)
Submitted == phase # "idle"
TheFile == files[1]
TheMedia == input_paths[1]
IsVideo == Submitted /\ TheMedia.type = "video"
Opened == IsVideo /\ TheFile.cap # "none"
FrameInterval == PlanOf(TheMedia).frame_interval
FrameNumbers(list) == [i \in DOMAIN list |-> list[i].frame_number]
Merged == Submitted /\ batch_start >= 1

RECURSIVE RetainedBefore(_, _, _)
\* reference: the frame numbers among 0..n-1 of the stream that are sampled,
\* pass the gate (or are the first to be retained) and are stored
RetainedBefore(media, interval, n) ==
    IF n = 0 THEN <<>>
    ELSE LET before == RetainedBefore(media, interval, n - 1)
             frame == media.stream[n]
         IN  IF (n - 1) % interval = 0 /\ (before = <<>> \/ frame.gate) /\ frame.saves
             THEN Append(before, n - 1) ELSE before

\* the loop was left because read() returned False on a frame that is there
ReadFailed ==
    /\ Opened
    /\ TheFile.ending = "exhausted"
    /\ TheFile.frame_count < Len(TheMedia.stream)
    /\ TheMedia.stream[TheFile.frame_count + 1].read = "fail"

\* C22: when a frame read fails after the container opened, the pipeline
\* stops cleanly: no further frame is read, the capture is released, exactly
\* the FrameRecords retained before the failure are returned, and the file
\* counts as a success when at least one frame was saved.
C22_ReadFailureStopsCleanly ==
    ReadFailed =>
        /\ TheFile.pc = "done"
        /\ TheFile.reads = TheFile.frame_count + 1
        /\ TheFile.cap = "released"
        /\ FrameNumbers(TheFile.frame_paths)
              = RetainedBefore(TheMedia, FrameInterval, TheFile.frame_count)
        /\ TheFile.frame_paths # <<>> => TheFile.success
        /\ (Merged /\ TheFile.frame_paths # <<>>) =>
              /\ success_count = 1
              /\ failed_count = 0
              /\ FrameNumbers(IF phase = "running" THEN all_frame_paths ELSE pre_cull)
                    = FrameNumbers(TheFile.frame_paths)

\* the read of frame 2 fails after frame 0 was retained and frame 1 passed
\* over; the batch has returned with one success
C22_Witness ==
    /\ ReadFailed
    /\ TheFile.frame_count = 2
    /\ Len(TheFile.frame_paths) = 1
    /\ phase = "returned"
    /\ success_count = 1

\* the iteration about to run stores a kept frame and imwrite returns False
SaveFails ==
    /\ IsVideo
    /\ phase = "running"
    /\ TheFile.pc = "decoding"
    /\ TheFile.frame_count < Len(TheMedia.stream)
    /\ LET frame == TheMedia.stream[TheFile.frame_count + 1]
       IN  /\ frame.read = "ok"
           /\ TheFile.frame_count % FrameInterval = 0
           /\ (~TheFile.has_previous \/ frame.gate)
           /\ ~frame.saves

ImageSaveFailed ==
    /\ Submitted
    /\ TheMedia.type = "image"
    /\ TheMedia.stream[1].read = "ok"
    /\ ~TheMedia.stream[1].saves
    /\ TheFile.pc = "done"

\* C23: when writing a kept frame's JPEG fails, no FrameRecord is appended,
\* extracted_count does not advance, the previous-frame buffer is unchanged
\* and the pipeline continues with the next frame; an image whose save fails
\* yields a failed file and no record.
C23_SaveFailureSkipsFrame ==
    /\ [][(SaveFails /\ DecodeStep(1)) =>
            /\ files'[1].frame_paths = files[1].frame_paths
            /\ files'[1].extracted_count = files[1].extracted_count
            /\ files'[1].previous = files[1].previous
            /\ files'[1].has_previous = files[1].has_previous
            /\ files'[1].pc = "decoding"
            /\ files'[1].frame_count = files[1].frame_count + 1
            /\ disk' = disk]_vars
    /\ [](ImageSaveFailed =>
            /\ ~TheFile.success
            /\ TheFile.frame_paths = <<>>
            /\ all_frame_paths = <<>>
            /\ Merged => (failed_count = 1 /\ success_count = 0))

\* saving frame 0 failed, and frame 2 was then retained as the first record
C23_Witness ==
    /\ IsVideo
    /\ TheFile.pc = "done"
    /\ Len(TheMedia.stream) >= 3
    /\ TheMedia.stream[1].read = "ok"
    /\ ~TheMedia.stream[1].saves
    /\ FrameNumbers(TheFile.frame_paths) = <<2>>
    /\ TheFile.frame_paths[1].extracted_index = 0

\* C26: frames are read in decode order, the gate is evaluated only for
\* frame numbers that are multiples of frame_interval, and the records of one
\* file have strictly increasing frame_number values, all multiples of
\* frame_interval, timestamp = frame_number / fps and extracted_index equal to
\* their position 0..k-1.
C26_DecodeOrderAndSampling ==
    Opened =>
        LET f == TheFile
            recs == f.frame_paths
        IN  /\ f.reads \in {f.frame_count, f.frame_count + 1}
            /\ f.reads = f.frame_count + 1 => f.pc = "done"
            /\ \A i \in DOMAIN f.sampled :
                  /\ f.sampled[i] % FrameInterval = 0
                  /\ f.sampled[i] < f.reads
                  /\ i > 1 => f.sampled[i - 1] < f.sampled[i]
            /\ \A i \in DOMAIN recs :
                  /\ recs[i].frame_number % FrameInterval = 0
                  /\ \E j \in DOMAIN f.sampled : f.sampled[j] = recs[i].frame_number
                  /\ i > 1 => recs[i - 1].frame_number < recs[i].frame_number
                  /\ recs[i].timestamp.num * TheMedia.fps
                        = recs[i].frame_number * recs[i].timestamp.den
                  /\ recs[i].timestamp.den # 0
                  /\ recs[i].extracted_index = i - 1

\* frames 0 and 2 of a four-frame clip retained at interval 2, frame 1 read
\* and passed over
C26_Witness ==
    /\ Opened
    /\ FrameInterval = 2
    /\ FrameNumbers(TheFile.frame_paths) = <<0, 2>>
    /\ TheFile.sampled = <<0, 2>>
    /\ TheFile.reads >= 3

\* C27: for every cap >= 1 the pipeline never retains more than
\* max_base_frames frames of one video and reads no further frame once
\* extracted_count has reached the cap.
C27_PerFileCap ==
    Opened =>
        LET f == TheFile
        IN  /\ Len(f.frame_paths) <= max_base_frames
            /\ f.extracted_count <= max_base_frames
            /\ f.extracted_count = Len(f.frame_paths)
            /\ f.extracted_count >= max_base_frames =>
                  /\ f.pc = "done"
                  /\ f.ending = "capped"
                  /\ f.reads = f.frame_paths[Len(f.frame_paths)].frame_number + 1

\* the cap of one is reached on frame 0 while frame 2 would have been kept
C27_Witness ==
    /\ Opened
    /\ max_base_frames = 1
    /\ TheFile.ending = "capped"
    /\ TheFile.reads = 1
    /\ Len(TheMedia.stream) >= 3
    /\ TheMedia.stream[3] = Frame("ok", TRUE, 1, TRUE)

\* the steps of one file: Validating (started), waiting for the semaphore
\* (validated), validated again and planned (admitted), Decoding, Done
PipelineSteps ==
    { <<"pending", "started">>, <<"started", "validated">>, <<"started", "done">>,
      <<"validated", "admitted">>, <<"admitted", "decoding">>, <<"admitted", "done">>,
      <<"decoding", "decoding">>, <<"decoding", "done">> }

\* C30: the per-file pipeline follows Validating -> Decoding -> (per sampled
\* frame: Scoring -> RetentionCheck -> optional Saving) -> Capped or Exhausted
\* -> Done; for every finite stream it terminates, it ends because the stream
\* is exhausted or the cap was reached, and the capture is released on every
\* path, including when an exception is raised inside the loop.
C30_PipelineTerminatesAndReleases ==
    /\ [][(Submitted /\ files'[1] # files[1])
            => <<files[1].pc, files'[1].pc>> \in PipelineSteps]_vars
    /\ [](Opened =>
            LET f == TheFile
                at_end == f.frame_count >= Len(TheMedia.stream)
            IN  /\ f.pc = "decoding" <=> f.cap = "open"
                /\ f.pc = "done" <=> f.cap = "released"
                /\ f.pc = "done" => f.ending \in {"exhausted", "capped", "exception"}
                /\ f.ending = "exhausted" =>
                      (at_end \/ TheMedia.stream[f.frame_count + 1].read = "fail")
                /\ f.ending = "capped" => f.extracted_count = max_base_frames
                /\ f.ending = "exception" =>
                      (~at_end /\ TheMedia.stream[f.frame_count + 1].read = "raise"))
    /\ (Submitted ~> (Submitted /\ TheFile.pc = "done"))
    /\ (Submitted ~> (phase = "returned"))

\* an exception was raised on the second read: the capture is released and
\* the batch has returned
C30_Witness ==
    /\ Opened
    /\ TheFile.ending = "exception"
    /\ TheFile.reads = 2
    /\ TheFile.cap = "released"
    /\ phase = "returned"

(***************************************************************************)
(* The detector on a pair of frames (checked under SpecGate)               *)
(***************************************************************************)
Compared == gate_frames # <<>>
SameFrame == Compared /\ gate_frames[1] = gate_frames[2]

C24_WitnessDifferent ==
    /\ Compared
    /\ gate_frames[1] = <<0, 0>>
    /\ gate_frames[2] = <<60, 60>>
    /\ gate_out.scene.pixel_difference = 60
    /\ gate_out.scene.histogram_difference = 2
    /\ gate_out.scene.is_scene_change

\* with a similarity_threshold of 0 the identical candidate is kept
C24_WitnessZeroThreshold ==
    /\ SameFrame
    /\ gate_in.sharpness >= gate_in.sharpness_threshold
    /\ gate_in.similarity_threshold = 0
    /\ gate_out.keep

(***************************************************************************)
(* calculate_frame_quality                                                 *)
(*                                                                         *)
(* sharpness (variance of the Laplacian), brightness (mean grey level) and *)
(* contrast (standard deviation) are what OpenCV and numpy measure on the  *)
(* frame: they are the inputs here.  The weights are held in tenths and    *)
(* quality_score in units of 1/1280, so that brightness / 128 is exact.    *)
(***************************************************************************)
QUALITY_WEIGHT_SHARPNESS == 5
QUALITY_WEIGHT_CONTRAST == 3
QUALITY_WEIGHT_BRIGHTNESS == 2

\* mutant: brightness / 128.0 is not capped at 1.0
calculate_frame_quality_Uncapped(sharpness, brightness, contrast) ==
    [sharpness |-> sharpness, brightness |-> brightness, contrast |-> contrast,
     quality_score |-> sharpness * QUALITY_WEIGHT_SHARPNESS * 128
                        + contrast * QUALITY_WEIGHT_CONTRAST * 128
                        + brightness * QUALITY_WEIGHT_BRIGHTNESS]

calculate_frame_quality(sharpness, brightness, contrast) ==
    [sharpness |-> sharpness, brightness |-> brightness, contrast |-> contrast,
     quality_score |-> sharpness * QUALITY_WEIGHT_SHARPNESS * 128
                        + contrast * QUALITY_WEIGHT_CONTRAST * 128
                        \* min(brightness / 128.0, 1.0) * 128
                        + Min(brightness, 128) * QUALITY_WEIGHT_BRIGHTNESS]

SharpnessLevels == {0, 1, 2, 99, 100, 500}
BrightnessLevels == {0, 1, 64, 127, 128, 129, 255}
ContrastLevels == {0, 1, 2, 50, 127}

InitQuality ==
    /\ plan_in = NoArgs
    /\ plan_out = NoPlan
    /\ gate_in = NoGateArgs
    /\ gate_out = NoGateResult
    /\ BatchIdle

\* one call of calculate_frame_quality
CallQuality ==
    /\ ~quality_in.called
    /\ \E sharpness \in SharpnessLevels, brightness \in BrightnessLevels,
          contrast \in ContrastLevels :
        /\ quality_in' = [called |-> TRUE, sharpness |-> sharpness,
                          brightness |-> brightness, contrast |-> contrast]
        /\ quality_out' = calculate_frame_quality(sharpness, brightness, contrast)
    /\ UNCHANGED <<plannerVars, gateVars, batchVars, monitorVars, validateVars, gate_frames,
                   apartVars>>

NextQuality ==
    \/ CallQuality

SpecQuality == InitQuality /\ [][NextQuality]_vars

\* the score the same call gives on other metrics
ScoreOf(sharpness, brightness, contrast) ==
    calculate_frame_quality(sharpness, brightness, contrast).quality_score

ChunkStartOf(k) == ((k - 1) \div batch_size) * batch_size

Began(k) == files[k].pc # "pending"

RECURSIVE ReturnedKeys(_, _)
\* reference: the records returned by the successful files among k..last, in
\* input order
ReturnedKeys(k, last) ==
    IF k > last THEN <<>>
    ELSE (IF files[k].success
          THEN [i \in DOMAIN files[k].frame_paths |-> KeyOf(files[k].frame_paths[i])]
          ELSE <<>>) \o ReturnedKeys(k + 1, last)

KeysInOrder(list) == [i \in DOMAIN list |-> KeyOf(list[i])]

SuccessesUpTo(n) == Cardinality({j \in Positions : j <= n /\ files[j].success})

\* C28: no file of chunk k+1 starts, not even its validation or its first
\* progress update, before every file of chunk k has completed and its
\* result has been merged into the aggregate list and the counters.
C28_ChunkBarrier ==
    /\ \A k \in Positions :
          Began(k) =>
              /\ ChunkStartOf(k) <= batch_start
              /\ \A j \in Positions : j <= ChunkStartOf(k) => files[j].pc = "done"
              /\ phase # "raised" =>
                    /\ success_count + failed_count >= ChunkStartOf(k)
                    /\ success_count >= SuccessesUpTo(ChunkStartOf(k))
              /\ phase = "running" =>
                    \A j \in Positions :
                        (j <= ChunkStartOf(k) /\ files[j].success) =>
                            \A i \in DOMAIN files[j].frame_paths :
                                KeyOf(files[j].frame_paths[i]) \in Keys(all_frame_paths)
    /\ current_file # <<>> =>
          \E k \in Positions : Began(k) /\ Basename(input_paths[k]) = current_file

\* the second chunk's file has made its first progress update; the first
\* chunk's file is merged with its records
C28_Witness ==
    /\ phase = "running"
    /\ batch_size = 1
    /\ Len(input_paths) = 2
    /\ files[2].pc = "started"
    /\ batch_start = 1
    /\ success_count = 1
    /\ Len(all_frame_paths) >= 1

\* C29: the aggregate list loses no record: before culling it holds every
\* record returned by every successful file exactly once; culling and
\* re-indexing start only after all chunks have drained, so no file pipeline
\* is running or writing while they read, delete or rename.
C29_AggregateComplete ==
    /\ phase = "running" =>
          KeysInOrder(all_frame_paths) = ReturnedKeys(1, Min(batch_start, Len(input_paths)))
    /\ phase \in {"culled", "returned"} =>
          /\ KeysInOrder(pre_cull) = ReturnedKeys(1, Len(input_paths))
          /\ \A k \in Positions : files[k].pc = "done"
          /\ semaphore = batch_size
          /\ batch_start >= Len(input_paths)
          /\ success_count = SuccessesUpTo(Len(input_paths))

\* two videos of two chunks returned two records each; the list held all four
\* before it was culled to two
C29_Witness ==
    /\ phase = "returned"
    /\ batch_size = 1
    /\ Len(input_paths) = 2
    /\ Len(pre_cull) = 4
    /\ Len(all_frame_paths) = 2
    /\ success_count = 2

(***************************************************************************)
(* The two branches of the gate after the sharpness test (checked under    *)
(* SpecGate)                                                               *)
(***************************************************************************)
SharpWithPrevious ==
    /\ Gated
    /\ gate_in.has_previous
    /\ gate_in.sharpness >= gate_in.sharpness_threshold

\* C35: for every sensitivity level, a sharp candidate flagged as a scene
\* change through the pixel branch only (pixel_difference in (pixel_threshold,
\* 255], histogram_difference <= histogram_threshold) has change_intensity
\* below intensity_threshold[sensitivity] and is discarded; a scene-change
\* candidate can be kept only when its histogram_difference exceeds
\* histogram_threshold.
C35_PixelBranchNeverKeeps ==
    (SharpWithPrevious /\ gate_in.sensitivity \in Sensitivities) =>
        LET s == gate_in.sensitivity
            sc == gate_out.scene
        IN  /\ (/\ gate_in.pixel_diff > ClaimPixelThreshold[s]
                /\ gate_in.pixel_diff <= 255
                /\ gate_in.hist_diff <= ClaimHistThreshold[s]) =>
                    /\ sc.is_scene_change
                    /\ sc.change_intensity < ClaimIntensityThreshold[s] * 10000
                    /\ ~gate_out.keep
            /\ (sc.is_scene_change /\ gate_out.keep) =>
                    gate_in.hist_diff > ClaimHistThreshold[s]

\* the largest pixel difference with the histogram distance at its threshold,
\* at the sensitivity with the smallest pixel threshold: discarded
C35_Witness ==
    /\ SharpWithPrevious
    /\ gate_in.sensitivity = "ultra"
    /\ gate_in.pixel_diff = 255
    /\ gate_in.hist_diff = ClaimHistThreshold["ultra"]
    /\ gate_out.scene.is_scene_change
    /\ ~gate_out.keep

\* a scene change through the histogram branch, kept
C35_WitnessHistogramKept ==
    /\ SharpWithPrevious
    /\ gate_in.sensitivity \in Sensitivities
    /\ gate_in.pixel_diff <= ClaimPixelThreshold[gate_in.sensitivity]
    /\ gate_out.scene.is_scene_change
    /\ gate_out.keep

\* C36: with the default options (sensitivity high, similarity_threshold 15)
\* a sharp candidate that is not a scene change is kept only when its
\* pixel_difference equals exactly 15; whenever similarity_threshold >
\* pixel_threshold[sensitivity] the no-scene-change branch never keeps a frame.
C36_SimilarityBranchNarrow ==
    (SharpWithPrevious /\ ~gate_out.scene.is_scene_change) =>
        /\ (/\ gate_in.sensitivity = "high"
            /\ gate_in.similarity_threshold = 15) =>
                (gate_out.keep <=> gate_in.pixel_diff = 15)
        /\ (/\ gate_in.sensitivity \in Sensitivities
            /\ gate_in.similarity_threshold > ClaimPixelThreshold[gate_in.sensitivity]) =>
                ~gate_out.keep

\* the default options, a difference of exactly 15 and no scene change: kept
C36_Witness ==
    /\ SharpWithPrevious
    /\ gate_in.sensitivity = "high"
    /\ gate_in.similarity_threshold = 15
    /\ gate_in.pixel_diff = 15
    /\ ~gate_out.scene.is_scene_change
    /\ gate_out.keep

\* a similarity threshold above the pixel threshold, the difference at the
\* pixel threshold: not a scene change, and discarded
C36_WitnessAboveThreshold ==
    /\ SharpWithPrevious
    /\ gate_in.sensitivity = "high"
    /\ gate_in.similarity_threshold = 16
    /\ gate_in.pixel_diff = 15
    /\ ~gate_out.scene.is_scene_change
    /\ ~gate_out.keep

(***************************************************************************)
(* The comparison frame of the decode loop (checked under SpecPipeline)    *)
(***************************************************************************)
\* reference: the frame_number of the last record stored before frame n, -1
\* if there is none
LastStoredBefore(recs, n) ==
    LET earlier == {recs[i].frame_number : i \in {j \in DOMAIN recs : recs[j].frame_number < n}}
    IN  IF earlier = {} THEN -1 ELSE CHOOSE m \in earlier : \A x \in earlier : x <= m

\* C34: the previous-frame buffer is empty until a frame has been saved
\* successfully and afterwards holds the most recently saved frame: every
\* later candidate is compared against the last saved frame, never against a
\* discarded or unsaved candidate, and while no save has succeeded every
\* sampled candidate passes the retention gate unconditionally.
C34_PreviousIsLastSaved ==
    Opened =>
        LET f == TheFile
            recs == f.frame_paths
        IN  /\ f.has_previous <=> recs # <<>>
            /\ f.has_previous <=> f.previous # -1
            /\ f.previous = (IF recs = <<>> THEN -1 ELSE recs[Len(recs)].frame_number)
            /\ Len(f.compared) = Len(f.sampled)
            /\ \A i \in DOMAIN f.sampled :
                  /\ f.compared[i] = LastStoredBefore(recs, f.sampled[i])
                  /\ (f.compared[i] = -1 /\ TheMedia.stream[f.sampled[i] + 1].saves) =>
                        \E j \in DOMAIN recs : recs[j].frame_number = f.sampled[i]

\* saving frame 0 failed, so frame 2 met an empty buffer and was stored
\* although the gate would have rejected it against any frame
C34_Witness ==
    /\ Opened
    /\ Len(TheMedia.stream) >= 3
    /\ ~TheMedia.stream[1].saves
    /\ TheMedia.stream[3] = Frame("ok", FALSE, 1, TRUE)
    /\ TheFile.sampled = <<0, 2>>
    /\ TheFile.compared = <<-1, -1>>
    /\ FrameNumbers(TheFile.frame_paths) = <<2>>
    /\ TheFile.previous = 2

\* frame 2 was rejected against frame 0; the buffer still holds frame 0
C34_WitnessRejected ==
    /\ Opened
    /\ TheFile.sampled = <<0, 2>>
    /\ TheFile.compared = <<-1, 0>>
    /\ FrameNumbers(TheFile.frame_paths) = <<0>>
    /\ TheFile.previous = 0
    /\ TheFile.pc = "done"

(***************************************************************************)
(* What a counted success contributes (checked under SpecPipeline)         *)
(***************************************************************************)
\* C37: every file counted in success_count contributed at least one
\* FrameRecord to the aggregate list before culling; a video that opens but
\* yields no frame (its first read fails) is not counted as a success, so
\* success = true implies a non-empty pre-cull frame list.
C37_SuccessHasRecords ==
    /\ \A k \in Positions :
          (files[k].pc = "done" /\ files[k].success) => files[k].frame_paths # <<>>
    /\ (phase \in {"culled", "returned"} /\ success_count > 0) => pre_cull # <<>>

\* a successful image contributes exactly one record, and a video that
\* stored a frame at least one
C37_HoldsForStoredFrames ==
    \A k \in Positions :
        (files[k].pc = "done" /\ files[k].success) =>
            /\ input_paths[k].type = "image" => Len(files[k].frame_paths) = 1
            /\ input_paths[k].type = "video" =>
                    files[k].extracted_count = Len(files[k].frame_paths)
            /\ (phase \in {"culled", "returned"} /\ files[k].frame_paths # <<>>) =>
                    pre_cull # <<>>

(***************************************************************************)
(* Output paths before culling (checked under Spec)                        *)
(***************************************************************************)
\* the aggregate list as it is until culling
BeforeCulling == IF phase \in {"culled", "returned"} THEN pre_cull ELSE all_frame_paths

\* C33: before culling and renaming, all FrameRecords in the aggregate list
\* of one task have pairwise distinct output paths: frames written by
\* different input files of the same task never target the same file, so no
\* file's frame overwrites another's.
C33_DistinctPaths ==
    /\ \A i, j \in DOMAIN BeforeCulling :
          i # j => BeforeCulling[i].path # BeforeCulling[j].path
    /\ \A path \in DOMAIN disk :
          phase = "running" => Cardinality(WritersOf(path)) <= 1

\* the records of one file have pairwise distinct paths
C33_HoldsWithinOneFile ==
    \A k \in Positions :
        \A i, j \in DOMAIN files[k].frame_paths :
            i # j => files[k].frame_paths[i].path # files[k].frame_paths[j].path

(***************************************************************************)
(* OptimizedFrameExtractor.process_mixed_inputs, the sequential variant    *)
(* (basic_frame_extractor_optimized.py)                                    *)
(*                                                                         *)
(* One file after the other, each to its end.  Its planner, quality score, *)
(* detector, gate and validation have the text of the concurrent ones, so  *)
(* a file and its frames are described as above.  dir is the task          *)
(* directory, d the file system; a result is the frames, how the file      *)
(* ended (success, failure, raised) and the file system it leaves.         *)
(***************************************************************************)
RECURSIVE OptimizedLoop(_, _, _, _, _)
\* the decode loop of extract_frames_optimized from the locals in s
OptimizedLoop(k, media, cap, dir, s) ==
    LET frame_interval == PlanOf(media).frame_interval
        at_end == s.frame_count >= Len(media.stream)
        frame == media.stream[s.frame_count + 1]
        next == [s EXCEPT !.frame_count = @ + 1]
    IN  IF at_end \/ frame.read = "fail" THEN [s EXCEPT !.outcome = "success"]
        ELSE IF frame.read = "raise" THEN [s EXCEPT !.outcome = "raised"]
        ELSE IF s.frame_count % frame_interval # 0 THEN OptimizedLoop(k, media, cap, dir, next)
        ELSE IF ~(~s.has_previous \/ frame.gate) THEN OptimizedLoop(k, media, cap, dir, next)
        ELSE IF ~frame.saves THEN OptimizedLoop(k, media, cap, dir, next)
        ELSE LET filename == RawFrameName(s.extracted_count,
                                          Timestamp(s.frame_count, media.fps))
                 frame_info ==
                     [path |-> Join(dir, filename), filename |-> filename,
                      frame_number |-> s.frame_count,
                      timestamp |-> Quotient(s.frame_count, media.fps),
                      extracted_index |-> s.extracted_count, quality_score |-> frame.q,
                      source_type |-> "video", source_file |-> Basename(media)]
                 kept == [s EXCEPT !.frame_paths = Append(@, frame_info),
                                   !.has_previous = TRUE,
                                   !.extracted_count = @ + 1,
                                   !.disk = WriteFile(@, frame_info.path,
                                                      [src |-> k, frame |-> s.frame_count])]
             IN  IF kept.extracted_count >= cap
                 THEN [kept EXCEPT !.outcome = "success"]
                 ELSE OptimizedLoop(k, media, cap, dir, [kept EXCEPT !.frame_count = @ + 1])

\* extract_frames_optimized: validated again, planned, decoded
extract_frames_optimized(k, media, cap, dir, d) ==
    LET locals == [frame_count |-> 0, extracted_count |-> 0, has_previous |-> FALSE,
                   frame_paths |-> <<>>, disk |-> d, outcome |-> ""]
    IN  IF ~media.valid THEN [locals EXCEPT !.outcome = "failure"]
        ELSE IF PlanOf(media).raised THEN [locals EXCEPT !.outcome = "raised"]
        ELSE OptimizedLoop(k, media, cap, dir, locals)

\* process_image_file: imread's result is not tested, so an image that
\* cannot be read raises in resize_frame
process_image_file(k, media, dir, d) ==
    LET frame == media.stream[1]
        output_filename == ImageName(media.base)
        output_info ==
            [path |-> Join(dir, output_filename), filename |-> output_filename,
             frame_number |-> 0, timestamp |-> Quotient(0, 1), extracted_index |-> 0,
             quality_score |-> frame.q, source_type |-> "image",
             source_file |-> Basename(media)]
    IN  IF ~media.valid THEN [frame_paths |-> <<>>, disk |-> d, outcome |-> "failure"]
        ELSE IF frame.read # "ok" THEN [frame_paths |-> <<>>, disk |-> d, outcome |-> "raised"]
        ELSE IF frame.saves
             THEN [frame_paths |-> <<output_info>>,
                   disk |-> WriteFile(d, output_info.path, [src |-> k, frame |-> 0]),
                   outcome |-> "success"]
             ELSE [frame_paths |-> <<>>, disk |-> d, outcome |-> "failure"]

\* mutant: a file that raises is logged but not counted
MixedFile_ExceptionsUncounted(k, media, cap, dir, acc) ==
    IF ~media.valid THEN [acc EXCEPT !.failed_count = @ + 1]
    ELSE LET result == IF media.type = "video"
                       THEN extract_frames_optimized(k, media, cap, dir, acc.disk)
                       ELSE process_image_file(k, media, dir, acc.disk)
             frames == IF media.type = "image" /\ result.outcome = "success"
                       THEN <<[result.frame_paths[1] EXCEPT
                                 !.extracted_index = Len(acc.frame_paths)]>>
                       ELSE result.frame_paths
         IN  IF result.outcome = "success"
             THEN [acc EXCEPT !.success_count = @ + 1, !.frame_paths = @ \o frames,
                              !.disk = result.disk]
             ELSE IF result.outcome = "raised"
             THEN [acc EXCEPT !.disk = result.disk]
             ELSE [acc EXCEPT !.failed_count = @ + 1, !.disk = result.disk]

\* the body of `for file_path in input_paths` for file k: validate, extract
\* or process, merge; an exception counts the file as failed
MixedFile(k, media, cap, dir, acc) ==
    IF ~media.valid THEN [acc EXCEPT !.failed_count = @ + 1]
    ELSE LET result == IF media.type = "video"
                       THEN extract_frames_optimized(k, media, cap, dir, acc.disk)
                       ELSE process_image_file(k, media, dir, acc.disk)
             frames == IF media.type = "image" /\ result.outcome = "success"
                       THEN <<[result.frame_paths[1] EXCEPT
                                 !.extracted_index = Len(acc.frame_paths)]>>
                       ELSE result.frame_paths
         IN  IF result.outcome = "success"
             THEN [acc EXCEPT !.success_count = @ + 1, !.frame_paths = @ \o frames,
                              !.disk = result.disk]
             ELSE [acc EXCEPT !.failed_count = @ + 1, !.disk = result.disk]

RECURSIVE MixedFiles(_, _, _, _, _)
MixedFiles(k, paths, cap, dir, acc) ==
    IF k > Len(paths) THEN acc
    ELSE MixedFiles(k + 1, paths, cap, dir, MixedFile(k, paths[k], cap, dir, acc))

RECURSIVE RenameMixed(_, _, _, _)
\* the renaming loop of process_mixed_inputs from position i: <<disk, list>>
RenameMixed(i, d, list, dir) ==
    IF i > Len(list) THEN <<d, list>>
    ELSE LET frame_info == list[i]
             old_path == frame_info.path
             new_filename == IndexedName(i - 1, frame_info.source_type,
                                         CleanName(frame_info.source_file))
             new_path == Join(dir, new_filename)
         IN  IF old_path # new_path /\ Exists(d, old_path)
             THEN RenameMixed(i + 1,
                      RenameFile(IF Exists(d, new_path) THEN RemoveFile(d, new_path) ELSE d,
                                 old_path, new_path),
                      [list EXCEPT ![i].path = new_path, ![i].filename = new_filename,
                                   ![i].extracted_index = i - 1],
                      dir)
             ELSE RenameMixed(i + 1, d, list, dir)

\* process_mixed_inputs(paths, max_base_frames = cap) on an extractor whose
\* output_dir is original_output_dir and whose task directory is dir
process_mixed_inputs(paths, cap, dir, original_output_dir) ==
    LET merged == MixedFiles(1, paths, cap, dir,
                             [frame_paths |-> <<>>, success_count |-> 0,
                              failed_count |-> 0, disk |-> <<>>])
        sorted == SortByQualityDesc(merged.frame_paths)
        culled == IF Len(merged.frame_paths) > cap
                  THEN << RemoveAll(merged.disk, SubSeq(sorted, cap + 1, Len(sorted))),
                          SubSeq(sorted, 1, cap) >>
                  ELSE << merged.disk, merged.frame_paths >>
        renamed == RenameMixed(1, culled[1], culled[2], dir)
    IN  [success |-> merged.success_count > 0,
         success_count |-> merged.success_count,
         failed_count |-> merged.failed_count,
         frame_paths |-> renamed[2],
         disk |-> renamed[1],
         \* finally: self.output_dir = original_output_dir
         output_dir |-> original_output_dir]

(***************************************************************************)
(* The task directory and the two variants (checked under Spec)            *)
(***************************************************************************)
\* what the sequential variant returns for the submitted files
Sequential ==
    process_mixed_inputs(input_paths, max_base_frames, TASK_OUTPUT_DIR, DEFAULT_OUTPUT_DIR)

\* C40: one process_multiple_files_async (or process_mixed_inputs) invocation
\* leaves the extractor's output_dir equal to its value before the call on
\* every exit, whether the call returns or an exception escapes it; the
\* per-task directory is in effect only for the duration of the call.
C40_OutputDirRestored ==
    /\ phase \in {"idle", "returned", "raised"} => output_dir = DEFAULT_OUTPUT_DIR
    /\ phase \in {"running", "culled"} => output_dir = TASK_OUTPUT_DIR
    /\ \A path \in written : path.dir = TASK_OUTPUT_DIR
    /\ phase # "idle" => Sequential.output_dir = DEFAULT_OUTPUT_DIR

\* an exception escaped the call on two files: the directory is the
\* extractor's own again
C40_Witness ==
    /\ phase = "raised"
    /\ Len(input_paths) = 2
    /\ output_dir = DEFAULT_OUTPUT_DIR

\* the call returned frames stored in the task directory
C40_WitnessReturned ==
    /\ phase = "returned"
    /\ all_frame_paths # <<>>
    /\ \A i \in DOMAIN all_frame_paths : all_frame_paths[i].path.dir = TASK_OUTPUT_DIR
    /\ output_dir = DEFAULT_OUTPUT_DIR

\* C32: the sequential variant (process_mixed_inputs) and the concurrent
\* variant (process_multiple_files_async) are equivalent: for the same input
\* list, options and decoder and file-system behaviour they return the same
\* success_count, failed_count and final frame list (same records, same
\* order, same indices and filenames).
C32_VariantsEquivalent ==
    phase = "returned" =>
        /\ success_count = Sequential.success_count
        /\ failed_count = Sequential.failed_count
        /\ (success_count > 0) = Sequential.success
        /\ all_frame_paths = Sequential.frame_paths

\* two videos decoded concurrently in one chunk, culled to two frames
C32_Witness ==
    /\ phase = "returned"
    /\ batch_size = 2
    /\ Len(input_paths) = 2
    /\ \A k \in Positions : input_paths[k].type = "video" /\ files[k].success
    /\ Len(pre_cull) > Len(all_frame_paths)
    /\ all_frame_paths = Sequential.frame_paths
    /\ Len(all_frame_paths) = 2

\* the two variants return the same list while the files they leave differ
C32_WitnessFilesDiffer ==
    /\ phase = "returned"
    /\ all_frame_paths = Sequential.frame_paths
    /\ disk # Sequential.disk


(***************************************************************************)
(* A batch watched by an observer: what the monitor counts and what the    *)
(* observer is shown                                                       *)
(***************************************************************************)
\* the inputs of a watched batch: a clip that is extracted, one whose decoding
\* raises, a file that fails validation and an image
ObservedCatalogue ==
    {m \in FileCatalogue : \/ m.ext = "mp4" /\ m.base \in {"a", "e", "x"}
                           \/ m.ext = "png"}

\* progress_callback is an async function, or a function that returns a
\* coroutine for a file in progress and raises for a completed one
ObservedObservers == {"coroutine", "raises_on_completion"}

\* process_multiple_files_async(input_paths, max_base_frames, progress_callback)
BeginObserved ==
    /\ phase = "idle"
    /\ \E paths \in SeqsUpTo(ObservedCatalogue, MaxFiles) :
        /\ input_paths' = paths
        /\ files' = [k \in 1..Len(paths) |-> NewFile]
    /\ max_base_frames' = MaxCap
    /\ \E progress_callback \in ObservedObservers :
        /\ callbacks' = <<progress_callback>>
        /\ delivered' = << <<>> >>
    /\ phase' = "running"
    /\ output_dir' = TASK_OUTPUT_DIR
    /\ UNCHANGED <<batch_size, semaphore, batch_start, disk, all_frame_paths, success_count,
                   failed_count, pre_cull, written, plannerVars, gateVars,
                   completed_files, current_file, current_progress,
                   monitor_result,
                   validateVars, measureVars, apartVars>>

NextObserved ==
    \/ BeginObserved
    \/ \E k \in Positions : StartFile(k)
    \/ \E k \in Positions : ValidateFile(k)
    \/ \E k \in Positions : AcquireSemaphore(k)
    \/ \E k \in Positions : PlanVideo(k)
    \/ \E k \in Positions : DecodeStep(k)
    \/ \E k \in Positions : ProcessImage(k)
    \/ MergeChunk
    \/ Cull
    \/ RenameAndReturn

SpecObserved == Init /\ [][NextObserved]_vars

\* the snapshots the observer was called with, in order
Shown == IF callbacks = <<>> THEN <<>> ELSE delivered[1]

\* overall_progress of a snapshot of this batch, in percent times total_files
OverallOf(snapshot) == overall_progress(snapshot.completed_files, Len(input_paths))

\* C38: completed_files counts each file of the batch once, when its
\* process_single_file has ended, whichever way it ended; it never exceeds
\* total_files and equals it when the call has returned; the overall_progress
\* shown to the observer never decreases, stays within 0..100, and the last
\* snapshot of a returned call shows 100.
C38_CompletedOncePerFile ==
    phase # "idle" =>
        /\ completed_files = Cardinality({k \in Positions : files[k].pc = "done"})
        /\ completed_files <= Len(input_paths)
        /\ phase = "returned" => completed_files = Len(input_paths)
        /\ \A n \in DOMAIN Shown :
              /\ OverallOf(Shown[n]).num >= 0
              /\ OverallOf(Shown[n]).num <= 100 * OverallOf(Shown[n]).den
              /\ n > 1 => OverallOf(Shown[n - 1]).num <= OverallOf(Shown[n]).num
        /\ phase = "returned" /\ Shown # <<>> =>
              OverallOf(Shown[Len(Shown)]).num = 100 * OverallOf(Shown[Len(Shown)]).den

\* the part of C38 that holds: with an observer whose calls never raise
C38_HoldsForCoroutines ==
    callbacks = <<"coroutine">> => C38_CompletedOncePerFile

\* a watched batch of two files has returned
C38_WitnessReturned ==
    /\ phase = "returned"
    /\ callbacks = <<"coroutine">>
    /\ Len(input_paths) = 2
    /\ Len(Shown) = 4

\* C39: every snapshot the observer is called with has current_file_progress
\* 0 or 100, and the monitor's current_progress is never anything else: the
\* decode loop writes nothing to the monitor.
C39_ProgressZeroOrHundred ==
    /\ current_progress \in {0, 100}
    /\ \A i \in DOMAIN delivered : \A n \in DOMAIN delivered[i] :
          delivered[i][n].current_file_progress \in {0, 100}

\* a clip is two frames into its decode loop while the observer has seen a
\* file begin and a file complete
C39_Witness ==
    /\ phase = "running"
    /\ \E k \in Positions : files[k].pc = "decoding" /\ files[k].frame_count >= 2
    /\ \E n \in DOMAIN Shown : Shown[n].current_file_progress = 0
    /\ \E n \in DOMAIN Shown : Shown[n].current_file_progress = 100


(***************************************************************************)
(* The semaphore and the worker pool under fair scheduling                 *)
(***************************************************************************)
MaxWorkers == 2

\* the inputs of a pooled batch: every kind of ending of a file
PoolCatalogue == {m \in FileCatalogue : m.base # "b" /\ m.ext # "jpg"}

\* _setup_resources: ThreadPoolExecutor(max_workers = config['max_workers'])
max_workers == extractor.performance_profile.concurrency_config.max_workers

\* an extractor whose profile carries any worker count and any batch size
InitPool ==
    /\ plan_in = NoArgs
    /\ plan_out = NoPlan
    /\ gate_in = NoGateArgs
    /\ gate_out = NoGateResult
    /\ \E workers \in 1..MaxWorkers, size \in 1..MaxBatchSize :
        /\ extractor = [state |-> "built",
                        performance_profile |->
                            Profile("given", 4, "medium",
                                    ConcurrencyConfig(workers, size, 512, 1)),
                        semaphore |-> size]
        /\ batch_size = size
        /\ semaphore = size
    /\ input_paths = <<>>
    /\ max_base_frames = 1
    /\ phase = "idle"
    /\ output_dir = DEFAULT_OUTPUT_DIR
    /\ batch_start = 0
    /\ files = <<>>
    /\ disk = <<>>
    /\ all_frame_paths = <<>>
    /\ success_count = 0
    /\ failed_count = 0
    /\ pre_cull = <<>>
    /\ written = {}
    /\ MonitorIdle
    /\ MeasureIdle
    /\ validate_in = [exists |-> FALSE, ext |-> "", size |-> 0, probe |-> "ok",
                      total_frames |-> 0, fps |-> 0, width |-> 0, height |-> 0]
    /\ validate_out = NotValidated
    /\ host = None
    /\ tasks = <<>>
    /\ task_writes = {}

\* process_multiple_files_async on the built extractor
BeginPooled ==
    /\ phase = "idle"
    /\ \E paths \in SeqsUpTo(PoolCatalogue, MaxFiles) :
        /\ input_paths' = paths
        /\ files' = [k \in 1..Len(paths) |-> NewFile]
    /\ max_base_frames' = MaxCap
    /\ \E progress_callback \in BatchObservers :
        /\ callbacks' = IF progress_callback = None THEN <<>> ELSE <<progress_callback>>
        /\ delivered' = IF progress_callback = None THEN <<>> ELSE << <<>> >>
    /\ phase' = "running"
    /\ output_dir' = TASK_OUTPUT_DIR
    /\ UNCHANGED <<batch_size, semaphore, batch_start, disk, all_frame_paths, success_count,
                   failed_count, pre_cull, written, plannerVars, gateVars,
                   completed_files, current_file, current_progress,
                   monitor_result,
                   validateVars, measureVars, apartVars>>

\* the jobs a pool thread is executing: a submitted job waits in the
\* executor's queue until its first step is taken by a thread
Working == {k \in Positions : files[k].pc = "decoding" /\ files[k].reads > 0}

\* a thread runs the job of file k, or one of the max_workers threads is idle
WorkerFor(k) == k \in Working \/ Cardinality(Working) < max_workers

\* loop.run_in_executor(self.thread_pool, _extract_frames)
RunExtractFrames(k) == WorkerFor(k) /\ DecodeStep(k)

\* loop.run_in_executor(self.thread_pool, _process_image)
RunProcessImage(k) == WorkerFor(k) /\ ProcessImage(k)

NextPool ==
    \/ BeginPooled
    \/ \E k \in Positions : StartFile(k)
    \/ \E k \in Positions : ValidateFile(k)
    \/ \E k \in Positions : AcquireSemaphore(k)
    \/ \E k \in Positions : PlanVideo(k)
    \/ \E k \in Positions : RunExtractFrames(k)
    \/ \E k \in Positions : RunProcessImage(k)
    \/ MergeChunk
    \/ Cull
    \/ RenameAndReturn

SpecPool == InitPool /\ [][NextPool]_vars

\* the event loop runs every coroutine that can run and the pool every job
\* it has a thread for
SpecPoolLive == SpecPool /\ WF_vars(NextPool)

\* the files that hold a permit of the semaphore
Admitted == {k \in Positions : files[k].pc \in {"admitted", "decoding"}}

\* C31: under fair scheduling every call returns a result, whatever the
\* batch size and the number of pool threads.
C31_EveryCallReturns == (phase = "running") ~> (phase = "returned")

\* what does hold: every call ends, and it returns a result unless the
\* observer's call raises
C31_HoldsEveryCallEnds ==
    /\ (phase = "running") ~> (phase \in {"returned", "raised"})
    /\ (phase = "running" /\ ~NotifyRaises(callbacks)) ~> (phase = "returned")

\* what does hold: no file waits forever for a permit or for a pool thread
C31_HoldsNoFileWaitsForever ==
    \A k \in 1..MaxFiles :
        /\ (k \in Positions /\ files[k].pc = "validated")
              ~> (k \in Positions /\ files[k].pc # "validated")
        /\ (k \in Positions /\ files[k].pc \in {"admitted", "decoding"})
              ~> (k \in Positions /\ files[k].pc = "done")

\* what does hold: every permit is held by a file inside the semaphore or is
\* free, at most max_workers jobs run, and when the chunks are done, however
\* their files ended, every permit is back
C31_HoldsPermitsGivenBack ==
    /\ semaphore + Cardinality(Admitted) = batch_size
    /\ semaphore >= 0
    /\ Cardinality(Working) <= max_workers
    /\ phase \in {"drained", "culled", "returned", "raised"} => semaphore = batch_size

\* two files hold the two permits while the single pool thread runs the
\* job of one of them and the other's job waits in the queue
C31_WitnessQueuedJob ==
    /\ max_workers = 1
    /\ batch_size = 2
    /\ Cardinality(Admitted) = 2
    /\ Cardinality(Working) = 1

====
